---- MODULE Spec2Model ----
(***************************************************************************)
(* Verification model of commit-analyzer: the concurrency limiter          *)
(* (src/utils/concurrency.ts), the retry loops of the two analysis clients *)
(* (4.infrastructure/llm-adapter.ts, llm.ts), the batch orchestrator       *)
(* (2.application/analyze-commits.usecase.ts) and the legacy processor     *)
(* (commit-processor.ts).                                                  *)
(***************************************************************************)
EXTENDS Integers, Sequences, FiniteSets, TLC

(***************************************************************************)
(* Bounds of the model.                                                    *)
(***************************************************************************)
NumTasks == 4          \* execute() calls made on one ConcurrencyManager
MaxConc == 2           \* largest maxConcurrency a manager is built with
MaxRetriesCfg == 5     \* largest LLM_MAX_RETRIES the retry loops are run with
MaxCommits == 4         \* commits in the lists handed to the analysis
MaxClock == 8           \* the instant at which the clock of the saves stops
MaxRewind == 3          \* sub-batches cut at a negative index of processBatches
MaxStored == 5          \* commits in a ProgressState handed to the tracker
MaxLongRun == 12       \* commits of the runs that pass PROGRESS_SAVE_INTERVAL
MaxShortHash == 5      \* characters of the short strings given to CommitHash
MaxTextLength == 120   \* characters of the longest text in a model response
MaxCacheCalls == 2     \* calls of CachedAnalysisRepository.analyze in a run
MaxCacheDays == 60     \* days that pass over a cache directory
MaxCsvRows == 2        \* lines after the header of an imported file

VARIABLES
  cm,          \* ConcurrencyManager: [maxConcurrency, running, queue]
  submitted,   \* tasks handed to execute(), in call order
  enqueued,    \* tasks execute() pushed on the queue, in push order
  started,     \* tasks whose fn() was invoked, in invocation order
  outcome,     \* task -> what its fn() settled with, <<"none">> until then
  settled,     \* task -> what the promise returned by execute() settled with
  llm,         \* the analysis client: implementation, model, retry settings
  rpc,         \* position of analyzeCommit: idle, call, sleep, returned, thrown
  attempt,     \* loop variable of the retry loop
  lastError,   \* lastError of analyzeCommit
  callLog,     \* one entry per invocation of the external model, in order
  sleeps,      \* the delays passed to sleep(), in order
  cmd,         \* AnalyzeCommitsCommand given to AnalyzeCommitsUseCase.handle
  ucpc,        \* position of handle
  hashes,      \* handle: the CommitHash objects of command.commitHashes
  valid,       \* handle: the commits validateCommits found in the repository
  i,           \* handle / processBatches: loop index
  analyzedCommits,   \* handle: AnalyzedCommit[] accumulated
  processedCommits,  \* handle: CommitHash[] marked processed
  failedCommits,     \* handle: failure counter
  progressFile,      \* checkpoint store: <<>> or <<the stored state>>
  csvFile,           \* export destination: <<>> or <<the exported commits>>
  analyzeLog,        \* commits analyzeCommit was invoked on, in order
  quotaSeen,         \* an earlier commit of the run met a daily quota error
  exhaustedAt,       \* position in valid of the first commit whose analysis
                     \* threw out of the retry loop, 0 while there is none
  clock,             \* the wall clock new Date() reads
  cp,                \* CommitProcessor.processCommits: its position, its
                     \* arguments and locals, the checkpoint and export files
  tr,                \* JSONProgressTracker on its store: the checkpoint
                     \* file, the last call and what it returned
  rs,                \* ResumeAnalysisUseCase.handle: its position, the
                     \* loaded state and its result
  call,              \* a call of a function of the adapters and the
                     \* domain: its name, its arguments, what it returned
  cache              \* CachedAnalysisRepository with its CacheService

cmVars == <<cm, submitted, enqueued, started, outcome, settled>>

retryVars == <<llm, rpc, attempt, lastError, callLog, sleeps>>

ucVars == <<cmd, ucpc, hashes, valid, i, analyzedCommits, processedCommits,
            failedCommits, progressFile, csvFile, analyzeLog, quotaSeen,
            exhaustedAt, clock>>

cpVars == <<cp>>

trVars == <<tr>>

rsVars == <<rs>>

libVars == <<call, cache>>

vars == <<cm, submitted, enqueued, started, outcome, settled,
          llm, rpc, attempt, lastError, callLog, sleeps,
          cmd, ucpc, hashes, valid, i, analyzedCommits, processedCommits,
          failedCommits, progressFile, csvFile, analyzeLog, quotaSeen,
          exhaustedAt, clock, cp, tr, rs, call, cache>>

Tasks == 1..NumTasks

Range(s) == {s[k] : k \in 1..Len(s)}

\* no function of the adapters is being called, no cache is in use
CallIdle == call = [fn |-> "none"]

CacheIdle == cache = [pc |-> "off"]

LibIdle == CallIdle /\ CacheIdle

(***************************************************************************)
(* ConcurrencyManager (src/utils/concurrency.ts).  A closure runTask in    *)
(* the queue is represented by the task it runs.  The operators return     *)
(* the pair <<manager, tasks whose fn() the call invoked>>.                *)
(***************************************************************************)
NewConcurrencyManager(n) ==
  [maxConcurrency |-> n, running |-> 0, queue |-> <<>>]

\* runTask up to its first await: running++ and fn() is invoked
runTask(c, t) == <<[c EXCEPT !.running = @ + 1], <<t>>>>

execute_offByOne(c, t) ==
  IF c.running <= c.maxConcurrency
    THEN runTask(c, t)
    ELSE <<[c EXCEPT !.queue = Append(@, t)], <<>>>>

\* execute running every task at once, whatever is running
execute_unbounded(c, t) == runTask(c, t)

execute(c, t) ==
  IF c.running < c.maxConcurrency
    THEN runTask(c, t)
    ELSE <<[c EXCEPT !.queue = Append(@, t)], <<>>>>

processQueue_lifo(c) ==
  IF Len(c.queue) > 0 /\ c.running < c.maxConcurrency
    THEN runTask([c EXCEPT !.queue = SubSeq(@, 1, Len(@) - 1)],
                 c.queue[Len(c.queue)])
    ELSE <<c, <<>>>>

\* processQueue starting the next task only when a second slot is free
processQueue_spareSlot(c) ==
  IF Len(c.queue) > 0 /\ c.running + 1 < c.maxConcurrency
    THEN runTask([c EXCEPT !.queue = Tail(@)], Head(c.queue))
    ELSE <<c, <<>>>>

processQueue(c) ==
  IF Len(c.queue) > 0 /\ c.running < c.maxConcurrency
    THEN runTask([c EXCEPT !.queue = Tail(@)], Head(c.queue))
    ELSE <<c, <<>>>>

taskFinally_noDequeue(c) == <<[c EXCEPT !.running = @ - 1], <<>>>>

\* the finally block of runTask
taskFinally(c) == processQueue([c EXCEPT !.running = @ - 1])

\* what fn() of task t produces: its own value, or its own error
TaskResult(t, ok) == IF ok THEN <<"value", t>> ELSE <<"error", t>>

\* try { resolve(await fn()) } catch (error) { reject(error) }
settle(res) ==
  IF res[1] = "value" THEN <<"resolved", res>> ELSE <<"rejected", res>>

InFlight == {t \in Range(started) : outcome[t] = <<"none">>}

CMIdle ==
  /\ cm = NewConcurrencyManager(0)
  /\ submitted = <<>>
  /\ enqueued = <<>>
  /\ started = <<>>
  /\ outcome = [t \in Tasks |-> <<"none">>]
  /\ settled = [t \in Tasks |-> <<"pending">>]

CMStart ==
  /\ cm \in {NewConcurrencyManager(n) : n \in 0..MaxConc}
  /\ submitted = <<>>
  /\ enqueued = <<>>
  /\ started = <<>>
  /\ outcome = [t \in Tasks |-> <<"none">>]
  /\ settled = [t \in Tasks |-> <<"pending">>]

\* a caller invokes execute(fn) for the next task
Execute ==
  /\ Len(submitted) < NumTasks
  /\ LET t == Len(submitted) + 1
         r == execute(cm, t)
     IN /\ cm' = r[1]
        /\ started' = started \o r[2]
        /\ enqueued' = IF r[2] = <<>> THEN Append(enqueued, t) ELSE enqueued
        /\ submitted' = Append(submitted, t)
  /\ UNCHANGED <<outcome, settled>>

\* fn() of a running task settles; the continuation of runTask resolves or
\* rejects the caller's promise and runs the finally block
Finish(t, ok) ==
  /\ t \in InFlight
  /\ LET r == taskFinally(cm)
     IN /\ cm' = r[1]
        /\ started' = started \o r[2]
  /\ outcome' = [outcome EXCEPT ![t] = TaskResult(t, ok)]
  /\ settled' = [settled EXCEPT ![t] = settle(TaskResult(t, ok))]
  /\ UNCHANGED <<submitted, enqueued>>

FinishTask == \E t \in Tasks : \E ok \in BOOLEAN : Finish(t, ok)

CMNext ==
  (Execute \/ FinishTask) /\ UNCHANGED <<retryVars, ucVars, cpVars, trVars,
                                         rsVars, libVars>>

(***************************************************************************)
(* The retry loops of the analysis clients: LLMAdapter.analyzeCommit       *)
(* (4.infrastructure/llm-adapter.ts) and LLMService.analyzeCommit          *)
(* (llm.ts).  An error of the external command is the set of the marker    *)
(* substrings found in its lower-cased message, stderr and stdout.         *)
(***************************************************************************)
MAX_RETRIES_DEFAULT == 3

DefaultDelays ==
  [INITIAL_RETRY_DELAY |-> 5000, RETRY_MULTIPLIER |-> 2,
   MAX_RETRY_DELAY |-> 30000]

\* the defaults and the settings of the README examples
DelayConfigs ==
  { DefaultDelays,
    [INITIAL_RETRY_DELAY |-> 10000, RETRY_MULTIPLIER |-> 2,
     MAX_RETRY_DELAY |-> 30000],
    [INITIAL_RETRY_DELAY |-> 2000, RETRY_MULTIPLIER |-> 2,
     MAX_RETRY_DELAY |-> 30000],
    [INITIAL_RETRY_DELAY |-> 15000, RETRY_MULTIPLIER |-> 2,
     MAX_RETRY_DELAY |-> 60000] }

Models == {"gemini", "claude"}

ErrDailyQuota == {"quota exceeded", "gemini", "requests per day"}
ErrPerMinute == {"quota exceeded", "gemini", "requests per minute"}
ErrClaudeRateLimit == {"rate limit", "claude"}
ErrTooManyRequests == {"429"}
ErrTimeout == {"etimedout"}
ErrParse == {"failed to parse llm response"}

ErrorSamples ==
  {ErrDailyQuota, ErrPerMinute, ErrClaudeRateLimit, ErrTooManyRequests,
   ErrTimeout, ErrParse}

\* what one attempt (external command, then parseResponse) ends with
AttemptOutcomes == {<<"ok">>} \cup {<<"error", e>> : e \in ErrorSamples}

isRateLimitError(e, model) ==
  IF "quota exceeded" \in e /\ "gemini" \in e
    THEN IF "requests per day" \in e
           THEN [isRateLimit |-> TRUE, service |-> "Gemini",
                 limitType |-> "daily quota"]
           ELSE IF "requests per minute" \in e
                  THEN [isRateLimit |-> TRUE, service |-> "Gemini",
                        limitType |-> "per-minute rate limit"]
                  ELSE [isRateLimit |-> TRUE, service |-> "Gemini",
                        limitType |-> "quota limit"]
    ELSE IF "rate limit" \in e /\ "claude" \in e
      THEN [isRateLimit |-> TRUE, service |-> "Claude",
            limitType |-> "rate limit"]
      ELSE IF \/ "429" \in e
              \/ "too many requests" \in e
              \/ "rate limit" \in e
              \/ "quota exceeded" \in e
        THEN IF model = "gemini"
               THEN [isRateLimit |-> TRUE, service |-> "Gemini",
                     limitType |-> "rate/quota limit"]
               ELSE IF model = "claude"
                      THEN [isRateLimit |-> TRUE, service |-> "Claude",
                            limitType |-> "rate limit"]
                      ELSE [isRateLimit |-> TRUE, service |-> "undefined",
                            limitType |-> "rate/quota limit"]
        ELSE [isRateLimit |-> FALSE, service |-> "undefined",
              limitType |-> "undefined"]

\* the entry of callLog for an attempt: ok, or the limit type of its error
CallClass(o, model) ==
  IF o[1] = "ok" THEN "ok" ELSE isRateLimitError(o[2], model).limitType

RECURSIVE Pow(_, _)
Pow(b, n) == IF n <= 0 THEN 1 ELSE b * Pow(b, n - 1)

Min(a, b) == IF a < b THEN a ELSE b

retryDelay_fromAttempt(d, k) ==
  Min(d.INITIAL_RETRY_DELAY * Pow(d.RETRY_MULTIPLIER, k), d.MAX_RETRY_DELAY)

\* Math.min(INITIAL_RETRY_DELAY * Math.pow(RETRY_MULTIPLIER, attempt - 1),
\*          MAX_RETRY_DELAY)
retryDelay(d, k) ==
  Min(d.INITIAL_RETRY_DELAY * Pow(d.RETRY_MULTIPLIER, k - 1),
      d.MAX_RETRY_DELAY)

LLMConfigs ==
  [impl : {"LLMAdapter"}, retryEnabled : BOOLEAN, model : Models,
   MAX_RETRIES : 0..MaxRetriesCfg, delays : DelayConfigs]
  \cup
  [impl : {"LLMService"}, retryEnabled : {TRUE}, model : Models,
   MAX_RETRIES : 0..MaxRetriesCfg, delays : DelayConfigs]

RetryIdle ==
  /\ llm = [impl |-> "LLMAdapter", retryEnabled |-> TRUE, model |-> "claude",
            MAX_RETRIES |-> MAX_RETRIES_DEFAULT, delays |-> DefaultDelays]
  /\ rpc = "idle"
  /\ attempt = 1
  /\ lastError = <<"null">>
  /\ callLog = <<>>
  /\ sleeps = <<>>

RetryStart ==
  /\ llm \in LLMConfigs
  /\ rpc = "idle"
  /\ attempt = 1
  /\ lastError = <<"null">>
  /\ callLog = <<>>
  /\ sleeps = <<>>

\* analyzeCommit is entered: the prompt is built and the first invocation of
\* the external model is issued, unless the loop condition fails at once
beginAnalyze ==
  /\ rpc = "idle"
  /\ rpc' = IF llm.impl = "LLMAdapter" /\ ~llm.retryEnabled THEN "call"
            ELSE IF 1 <= llm.MAX_RETRIES THEN "call" ELSE "thrown"
  /\ attempt' = 1
  /\ lastError' = <<"null">>
  /\ callLog' = <<>>
  /\ sleeps' = <<>>
  /\ UNCHANGED llm

\* the single attempt going on to a backoff sleep and a further attempt
adapterSingleAttempt_retry(o) ==
  /\ llm.impl = "LLMAdapter" /\ ~llm.retryEnabled
  /\ rpc = "call"
  /\ callLog' = Append(callLog, CallClass(o, llm.model))
  /\ IF o[1] = "ok"
       THEN /\ rpc' = "returned"
            /\ UNCHANGED <<lastError, sleeps>>
       ELSE /\ lastError' = o
            /\ sleeps' = Append(sleeps, retryDelay(llm.delays, attempt))
            /\ rpc' = IF attempt < llm.MAX_RETRIES THEN "sleep" ELSE "thrown"
  /\ UNCHANGED <<llm, attempt>>

\* LLMAdapter.analyzeCommit, retry disabled: one attempt, returned or thrown
adapterSingleAttempt(o) ==
  /\ llm.impl = "LLMAdapter" /\ ~llm.retryEnabled
  /\ rpc = "call"
  /\ callLog' = Append(callLog, CallClass(o, llm.model))
  /\ rpc' = IF o[1] = "ok" THEN "returned" ELSE "thrown"
  /\ lastError' = IF o[1] = "ok" THEN lastError ELSE o
  /\ UNCHANGED <<llm, attempt, sleeps>>

adapterAttempt_sleepAfterLast(o) ==
  /\ llm.impl = "LLMAdapter" /\ llm.retryEnabled
  /\ rpc = "call"
  /\ callLog' = Append(callLog, CallClass(o, llm.model))
  /\ IF o[1] = "ok"
       THEN /\ rpc' = "returned"
            /\ UNCHANGED <<lastError, sleeps, attempt>>
       ELSE /\ lastError' = o
            /\ sleeps' = Append(sleeps, retryDelay(llm.delays, attempt))
            /\ rpc' = "sleep"
            /\ UNCHANGED attempt
  /\ UNCHANGED llm

\* LLMAdapter.analyzeCommit, one iteration of the retry loop up to its next
\* await: the attempt returns, or its error is caught and either the backoff
\* sleep starts or, after the last attempt, the loop ends and the call throws
adapterAttempt(o) ==
  /\ llm.impl = "LLMAdapter" /\ llm.retryEnabled
  /\ rpc = "call"
  /\ callLog' = Append(callLog, CallClass(o, llm.model))
  /\ IF o[1] = "ok"
       THEN /\ rpc' = "returned"
            /\ UNCHANGED <<lastError, sleeps, attempt>>
       ELSE /\ lastError' = o
            /\ IF attempt < llm.MAX_RETRIES
                 THEN /\ sleeps' = Append(sleeps,
                                          retryDelay(llm.delays, attempt))
                      /\ rpc' = "sleep"
                      /\ UNCHANGED attempt
                 ELSE /\ attempt' = attempt + 1
                      /\ rpc' = "thrown"
                      /\ UNCHANGED sleeps
  /\ UNCHANGED llm

serviceAttempt_retryDaily(o) ==
  /\ llm.impl = "LLMService"
  /\ rpc = "call"
  /\ callLog' = Append(callLog, CallClass(o, llm.model))
  /\ IF o[1] = "ok"
       THEN /\ rpc' = "returned"
            /\ UNCHANGED <<lastError, sleeps, attempt>>
       ELSE /\ lastError' = o
            /\ IF attempt < llm.MAX_RETRIES
                 THEN /\ sleeps' = Append(sleeps,
                                          retryDelay(llm.delays, attempt))
                      /\ rpc' = "sleep"
                      /\ UNCHANGED attempt
                 ELSE /\ attempt' = attempt + 1
                      /\ rpc' = "thrown"
                      /\ UNCHANGED sleeps
  /\ UNCHANGED llm

\* LLMService.analyzeCommit, one iteration of the retry loop: as above, but
\* an error classified as a daily quota is rethrown from the catch block
serviceAttempt(o) ==
  /\ llm.impl = "LLMService"
  /\ rpc = "call"
  /\ callLog' = Append(callLog, CallClass(o, llm.model))
  /\ IF o[1] = "ok"
       THEN /\ rpc' = "returned"
            /\ UNCHANGED <<lastError, sleeps, attempt>>
       ELSE /\ lastError' = o
            /\ LET rateLimitInfo == isRateLimitError(o[2], llm.model)
               IN IF /\ rateLimitInfo.isRateLimit
                     /\ rateLimitInfo.limitType = "daily quota"
                    THEN /\ rpc' = "thrown"
                         /\ UNCHANGED <<sleeps, attempt>>
                    ELSE IF attempt < llm.MAX_RETRIES
                      THEN /\ sleeps' = Append(sleeps,
                                           retryDelay(llm.delays, attempt))
                           /\ rpc' = "sleep"
                           /\ UNCHANGED attempt
                      ELSE /\ attempt' = attempt + 1
                           /\ rpc' = "thrown"
                           /\ UNCHANGED sleeps
  /\ UNCHANGED llm

\* the backoff sleep ends: attempt++ and the next invocation is issued
sleepDone ==
  /\ rpc = "sleep"
  /\ attempt' = attempt + 1
  /\ rpc' = IF attempt + 1 <= llm.MAX_RETRIES THEN "call" ELSE "thrown"
  /\ UNCHANGED <<llm, lastError, callLog, sleeps>>

BeginAnalyze == beginAnalyze /\ UNCHANGED <<cmVars, ucVars, cpVars, trVars,
                                            rsVars, libVars>>

AdapterSingleAttempt ==
  /\ (\E o \in AttemptOutcomes : adapterSingleAttempt(o))
  /\ UNCHANGED <<cmVars, ucVars, cpVars, trVars, rsVars, libVars>>

AdapterAttempt ==
  /\ (\E o \in AttemptOutcomes : adapterAttempt(o))
  /\ UNCHANGED <<cmVars, ucVars, cpVars, trVars, rsVars, libVars>>

ServiceAttempt ==
  /\ (\E o \in AttemptOutcomes : serviceAttempt(o))
  /\ UNCHANGED <<cmVars, ucVars, cpVars, trVars, rsVars, libVars>>

SleepDone == sleepDone /\ UNCHANGED <<cmVars, ucVars, cpVars, trVars,
                                      rsVars, libVars>>

RetryNext ==
  \/ BeginAnalyze
  \/ AdapterSingleAttempt
  \/ AdapterAttempt
  \/ ServiceAttempt
  \/ SleepDone

(***************************************************************************)
(* AnalyzeCommitsUseCase.handle (2.application/analyze-commits.usecase.ts) *)
(* driving CommitAnalysisService.analyzeCommit, LLMAnalysisRepository and  *)
(* the LLMAdapter retry loop above.  A raw commit identifier is the        *)
(* sequence of its characters.                                             *)
(***************************************************************************)
DEFAULT_PROGRESS_INTERVAL == 10
DEFAULT_BATCH_SIZE == 1
DEFAULT_MAX_CONCURRENCY == 3

HexChars ==
  {"0", "1", "2", "3", "4", "5", "6", "7", "8", "9",
   "a", "b", "c", "d", "e", "f", "A", "B", "C", "D", "E", "F"}

\* CommitHash.create with the test /^[a-f0-9]+$/ (no i flag)
CommitHashCreate_caseSensitive(hash) ==
  IF Len(hash) = 0
    THEN <<"error", "Commit hash cannot be empty">>
    ELSE IF Len(hash) < 4 \/ Len(hash) > 40
      THEN <<"error", "Invalid commit hash length">>
      ELSE IF ~(\A k \in 1..Len(hash) :
                  hash[k] \in {"0", "1", "2", "3", "4", "5", "6", "7", "8",
                               "9", "a", "b", "c", "d", "e", "f"})
        THEN <<"error",
               "Commit hash must contain only hexadecimal characters">>
        ELSE <<"ok", hash>>

\* CommitHash.create: <<"ok", value>> or <<"error", message>>
CommitHashCreate(hash) ==
  IF Len(hash) = 0
    THEN <<"error", "Commit hash cannot be empty">>
    ELSE IF Len(hash) < 4 \/ Len(hash) > 40
      THEN <<"error", "Invalid commit hash length">>
      ELSE IF ~(\A k \in 1..Len(hash) : hash[k] \in HexChars)
        THEN <<"error",
               "Commit hash must contain only hexadecimal characters">>
        ELSE <<"ok", hash>>

CommitDigits ==
  <<"1", "2", "3", "4", "5", "6", "7", "8", "9", "0", "a", "b", "c", "d", "e", "f">>

\* the n-th commit of the repository
CommitId(n) == <<"a", "b", "c", CommitDigits[n]>>

Repository == {CommitId(n) : n \in 1..Len(CommitDigits)}

\* a well-formed identifier of no commit, and a malformed identifier
UnknownId == <<"d", "e", "a", "d">>
MalformedId == <<"x", "y", "z", "1">>

FirstCommits(n) == [k \in 1..n |-> CommitId(k)]

InsertAt(s, x, p) == SubSeq(s, 1, p - 1) \o <<x>> \o SubSeq(s, p, Len(s))

\* the lists handed to handle: the first n commits, alone or with an
\* unknown or a malformed identifier in second place
CommitLists ==
  {FirstCommits(n) : n \in 0..MaxCommits}
  \cup {InsertAt(FirstCommits(n), x, Min(2, n + 1)) :
          n \in 0..(MaxCommits - 1), x \in {UnknownId, MalformedId}}

ProgressIntervals == {1, 2, DEFAULT_PROGRESS_INTERVAL}

BatchSizes == {DEFAULT_BATCH_SIZE, 2, NumTasks}

Commands ==
  [commitHashes : CommitLists, outputFile : {"out.csv"},
   saveProgressInterval : ProgressIntervals, batchSize : BatchSizes]

\* the values --batch-size reaches handle with: parseInt of the option
\* (CLIApplication.createProgram) passed on by parseOptions as it is
CliBatchSizes == {0 - 1, 0, DEFAULT_BATCH_SIZE, 2}

\* the commands the command line makes of a list of existing commits
CliCommands ==
  [commitHashes : {FirstCommits(n) : n \in 1..(MaxCommits - 1)},
   outputFile : {"out.csv"},
   saveProgressInterval : {1, DEFAULT_PROGRESS_INTERVAL},
   batchSize : CliBatchSizes]

\* commitAnalysisService.validateCommits: the hashes that exist, in order
validateCommits(hs) == SelectSeq(hs, LAMBDA h : h \in Repository)

\* a Date holding the instant t (counted in days), and the Date that
\* new Date(string) yields for a string that is no date
Date(t) == <<"date", t>>
InvalidDate == <<"invalid date">>

\* Date.toISOString and new Date(isoString)
toISOString(d) == <<"iso", d[2]>>
parseDate(str) == IF str[1] = "iso" THEN Date(str[2]) ELSE InvalidDate

DaysPerYear == 365
getYear(d) == 1970 + (d[2] \div DaysPerYear)

\* new Commit(...): <<"ok", commit>> or <<"error", message>>
NewCommit(hash, message, date, diff) ==
  IF message = ""
    THEN <<"error", "Commit message cannot be empty">>
    ELSE IF diff = ""
      THEN <<"error", "Commit diff is required">>
      ELSE <<"ok", [hash |-> hash, message |-> message, date |-> date,
                    diff |-> diff]>>

VALID_CATEGORIES == {"tweak", "feature", "process"}

\* category.toLowerCase().trim() on the spellings met here
normalizedCategory(category) ==
  CASE category = "Feature" -> "feature"
    [] category = " tweak" -> "tweak"
    [] OTHER -> category

\* Category.create
CategoryCreate(category) ==
  IF category = ""
    THEN <<"error", "Category cannot be empty">>
    ELSE IF normalizedCategory(category) \notin VALID_CATEGORIES
      THEN <<"error", "Invalid category">>
      ELSE <<"ok", normalizedCategory(category)>>

MAX_SUMMARY_LENGTH == 80
MIN_DESCRIPTION_LENGTH == 10

\* new Analysis(category, summary, description); the texts are sequences of
\* characters
NewAnalysis(category, summary, description) ==
  IF Len(summary) = 0
    THEN <<"error", "Summary cannot be empty">>
    ELSE IF Len(description) = 0
      THEN <<"error", "Description cannot be empty">>
      ELSE IF Len(summary) > MAX_SUMMARY_LENGTH
        THEN <<"error", "Summary cannot exceed 80 characters">>
        ELSE IF Len(description) < MIN_DESCRIPTION_LENGTH
          THEN <<"error", "Description must be at least 10 characters">>
          ELSE <<"ok", [category |-> category, summary |-> summary,
                        description |-> description]>>

\* the content the repository and the model give for a commit
SampleSummary == <<"f", "i", "x">>
SampleDescription == <<"d", "e", "s", "c", "r", "i", "p", "t", "i", "o", "n">>

\* new AnalyzedCommit(commit, analysis), with the accessors of both flattened
AnalyzedCommit(hash) ==
  [hash |-> hash, message |-> "message", date |-> Date(0), diff |-> "diff",
   category |-> "feature", summary |-> SampleSummary,
   description |-> SampleDescription]

HashesOf(commits) == [k \in 1..Len(commits) |-> commits[k].hash]

\* the state with lastProcessedIndex counting the processed commits
saveProgress_indexIsCount(totalCommits, processed, analyzed, outputFile) ==
  [totalCommits |-> totalCommits,
   processedCommits |-> processed,
   analyzedCommits |-> analyzed,
   lastProcessedIndex |-> Len(processed),
   startTime |-> Date(clock),
   outputFile |-> outputFile]

\* the state AnalyzeCommitsUseCase.saveProgress hands to the repository
saveProgress(totalCommits, processed, analyzed, outputFile) ==
  [totalCommits |-> totalCommits,
   processedCommits |-> processed,
   analyzedCommits |-> analyzed,
   lastProcessedIndex |-> Len(processed) - 1,
   startTime |-> Date(clock),
   outputFile |-> outputFile]

\* JSON values carry their type: <<"array", s>>, <<"string", s>>,
\* <<"number", n>>, <<"undefined">>
typeof(v) == v[1]

\* JSONProgressTracker.serializeProgressState
serializeProgressState(state) ==
  [totalCommits |-> <<"array", state.totalCommits>>,
   processedCommits |-> <<"array", state.processedCommits>>,
   analyzedCommits |->
     <<"array",
       [k \in 1..Len(state.analyzedCommits) |->
          LET commit == state.analyzedCommits[k]
          IN [hash |-> commit.hash,
              message |-> commit.message,
              date |-> toISOString(commit.date),
              year |-> getYear(commit.date),
              category |-> commit.category,
              summary |-> commit.summary,
              description |-> commit.description]]>>,
   lastProcessedIndex |-> <<"number", state.lastProcessedIndex>>,
   startTime |-> <<"string", toISOString(state.startTime)>>,
   outputFile |-> <<"string", state.outputFile>>]

\* JSON.stringify and JSON.parse on the content of the checkpoint file
JSONstringify(value) == <<"json", value>>
JSONparse(content) ==
  IF content[1] = "json" THEN <<"ok", content[2]>>
  ELSE <<"error", "SyntaxError">>

\* validateProgressData
validateProgressData(data) ==
  IF typeof(data.totalCommits) # "array"
    THEN <<"error", "totalCommits must be an array">>
    ELSE IF typeof(data.processedCommits) # "array"
      THEN <<"error", "processedCommits must be an array">>
      ELSE IF typeof(data.lastProcessedIndex) # "number"
        THEN <<"error", "lastProcessedIndex must be a number">>
        ELSE IF typeof(data.startTime) # "string"
          THEN <<"error", "startTime must be a string">>
          ELSE IF typeof(data.outputFile) # "string"
            THEN <<"error", "outputFile must be a string">>
            ELSE <<"ok">>

\* strings.map(CommitHash.create)
createAll(strings) ==
  IF \E k \in 1..Len(strings) : CommitHashCreate(strings[k])[1] = "error"
    THEN <<"error", "CommitHash.create">>
    ELSE <<"ok", [k \in 1..Len(strings) |-> CommitHashCreate(strings[k])[2]]>>

\* one item of deserializeAnalyzedCommits: the Commit is rebuilt with an
\* empty diff
deserializeAnalyzedCommit(item) ==
  LET hash == CommitHashCreate(item.hash)
      commit == NewCommit(hash[2], item.message, parseDate(item.date), "")
      category == CategoryCreate(item.category)
      analysis == NewAnalysis(category[2], item.summary, item.description)
  IN IF hash[1] = "error" THEN hash
     ELSE IF commit[1] = "error" THEN commit
     ELSE IF category[1] = "error" THEN category
     ELSE IF analysis[1] = "error" THEN analysis
     ELSE <<"ok", [hash |-> hash[2], message |-> item.message,
                   date |-> parseDate(item.date), diff |-> "",
                   category |-> category[2], summary |-> item.summary,
                   description |-> item.description]>>

\* deserializeAnalyzedCommits
deserializeAnalyzedCommits(data) ==
  IF typeof(data) # "array"
    THEN <<"ok", <<>>>>
    ELSE IF \E k \in 1..Len(data[2]) :
              deserializeAnalyzedCommit(data[2][k])[1] = "error"
      THEN <<"error", "deserializeAnalyzedCommits">>
      ELSE <<"ok", [k \in 1..Len(data[2]) |->
                      deserializeAnalyzedCommit(data[2][k])[2]]>>

\* JSONProgressTracker.deserializeProgressState: <<"ok", state>>, or
\* <<"error", message>> for what it throws
deserializeProgressState(data) ==
  LET checked == validateProgressData(data)
      total == createAll(data.totalCommits[2])
      processed == createAll(data.processedCommits[2])
      analyzed == deserializeAnalyzedCommits(data.analyzedCommits)
  IN IF checked[1] = "error" THEN checked
     ELSE IF total[1] = "error" THEN total
     ELSE IF processed[1] = "error" THEN processed
     ELSE IF analyzed[1] = "error" THEN analyzed
     ELSE <<"ok", [totalCommits |-> total[2],
                   processedCommits |-> processed[2],
                   analyzedCommits |-> analyzed[2],
                   lastProcessedIndex |-> data.lastProcessedIndex[2],
                   startTime |-> parseDate(data.startTime[2]),
                   outputFile |-> data.outputFile[2]]>>

\* deserializeProgressState of
\* infrastructure/adapters/progress/JSONProgressTracker.ts: the analyzed
\* commits are not rebuilt
deserializeProgressStateAdapters(data) ==
  LET checked == validateProgressData(data)
      total == createAll(data.totalCommits[2])
      processed == createAll(data.processedCommits[2])
  IN IF checked[1] = "error" THEN checked
     ELSE IF total[1] = "error" THEN total
     ELSE IF processed[1] = "error" THEN processed
     ELSE <<"ok", [totalCommits |-> total[2],
                   processedCommits |-> processed[2],
                   analyzedCommits |-> <<>>,
                   lastProcessedIndex |-> data.lastProcessedIndex[2],
                   startTime |-> parseDate(data.startTime[2]),
                   outputFile |-> data.outputFile[2]]>>

\* the two revisions of JSONProgressTracker
Revisions == {"4.infrastructure", "adapters"}

\* JSONProgressTracker.saveProgress: the content handed to writeFile
checkpointContent(state) == JSONstringify(serializeProgressState(state))

\* JSONProgressTracker.hasProgress on the store file (<<>> when absent)
hasProgress(file) == file # <<>>

\* the try block of loadProgress: readFile, JSON.parse, deserialize
readProgress(revision, file, readable) ==
  IF ~readable
    THEN <<"error", "Failed to read file">>
    ELSE LET parsed == JSONparse(file[1])
         IN IF parsed[1] = "error" THEN parsed
            ELSE IF revision = "adapters"
              THEN deserializeProgressStateAdapters(parsed[2])
              ELSE deserializeProgressState(parsed[2])

\* loadProgress without its catch block: an error of readFile, JSON.parse or
\* deserializeProgressState leaves it
loadProgress_noCatch(revision, file, readable) ==
  IF ~hasProgress(file)
    THEN <<"null">>
    ELSE LET r == readProgress(revision, file, readable)
         IN IF r[1] = "ok" THEN <<"state", r[2]>> ELSE <<"throw", r[2]>>

\* JSONProgressTracker.loadProgress: <<"state", s>>, <<"null">>, or
\* <<"throw", message>> for an error that leaves it
loadProgress(revision, file, readable) ==
  IF ~hasProgress(file)
    THEN <<"null">>
    ELSE LET r == readProgress(revision, file, readable)
         IN IF r[1] = "ok" THEN <<"state", r[2]>> ELSE <<"null">>

\* getRemainingCommits taking what follows lastProcessedIndex
remainingCommits_afterLastIndex(state) ==
  SubSeq(state.totalCommits, state.lastProcessedIndex + 2,
         Len(state.totalCommits))

\* JSONProgressTracker.getRemainingCommits
remainingCommits(state) ==
  LET processedHashes == Range(state.processedCommits)
  IN SelectSeq(state.totalCommits, LAMBDA hash : hash \notin processedHashes)

\* deleteFile without its fileExists test: unlinkSync on an absent file
\* throws
clearProgress_noExistsTest(file, deleted) ==
  IF hasProgress(file) /\ deleted THEN <<<<>>, "ok">> ELSE <<file, "throw">>

\* JSONProgressTracker.clearProgress with FileSystemStorageAdapter.deleteFile:
\* <<the file afterwards, "ok" or "throw">>
clearProgress(file, deleted) ==
  IF hasProgress(file)
    THEN IF deleted THEN <<<<>>, "ok">> ELSE <<file, "throw">>
    ELSE <<file, "ok">>

UCIdle ==
  /\ cmd = [commitHashes |-> <<>>, outputFile |-> "out.csv",
            saveProgressInterval |-> DEFAULT_PROGRESS_INTERVAL,
            batchSize |-> DEFAULT_BATCH_SIZE]
  /\ ucpc = "off"
  /\ hashes = <<>>
  /\ valid = <<>>
  /\ i = 0
  /\ analyzedCommits = <<>>
  /\ processedCommits = <<>>
  /\ failedCommits = 0
  /\ progressFile = <<>>
  /\ csvFile = <<>>
  /\ analyzeLog = <<>>
  /\ quotaSeen = FALSE
  /\ exhaustedAt = 0
  /\ clock = 1

UCStart ==
  /\ cmd \in Commands
  /\ ucpc = "start"
  /\ hashes = <<>>
  /\ valid = <<>>
  /\ i = 0
  /\ analyzedCommits = <<>>
  /\ processedCommits = <<>>
  /\ failedCommits = 0
  /\ progressFile = <<>>
  /\ csvFile = <<>>
  /\ analyzeLog = <<>>
  /\ quotaSeen = FALSE
  /\ exhaustedAt = 0
  /\ clock = 1

\* handle is called with a command of the command line
CliStart ==
  /\ cmd \in CliCommands
  /\ ucpc = "start"
  /\ hashes = <<>>
  /\ valid = <<>>
  /\ i = 0
  /\ analyzedCommits = <<>>
  /\ processedCommits = <<>>
  /\ failedCommits = 0
  /\ progressFile = <<>>
  /\ csvFile = <<>>
  /\ analyzeLog = <<>>
  /\ quotaSeen = FALSE
  /\ exhaustedAt = 0
  /\ clock = 1

\* handle without the test of valid.length === 0
HandleStart_noValidTest ==
  /\ UNCHANGED clock
  /\ ucpc = "start"
  /\ IF Len(cmd.commitHashes) = 0
       THEN /\ ucpc' = "thrown"
            /\ UNCHANGED <<hashes, valid>>
       ELSE IF \E k \in 1..Len(cmd.commitHashes) :
                 CommitHashCreate(cmd.commitHashes[k])[1] = "error"
         THEN /\ ucpc' = "thrown"
              /\ UNCHANGED <<hashes, valid>>
         ELSE /\ hashes' = [k \in 1..Len(cmd.commitHashes) |->
                              CommitHashCreate(cmd.commitHashes[k])[2]]
              /\ valid' = validateCommits(hashes')
              /\ ucpc' = IF cmd.batchSize = 1 THEN "loop" ELSE "batch"
  /\ UNCHANGED <<cmd, i, analyzedCommits, processedCommits, failedCommits,
                 progressFile, csvFile, analyzeLog, quotaSeen, exhaustedAt>>
  /\ UNCHANGED <<cmVars, retryVars>>

\* handle, lines 48-78: validation and the choice of the processing mode
HandleStart ==
  /\ UNCHANGED clock
  /\ ucpc = "start"
  /\ IF Len(cmd.commitHashes) = 0
       THEN /\ ucpc' = "thrown"
            /\ UNCHANGED <<hashes, valid>>
       ELSE IF \E k \in 1..Len(cmd.commitHashes) :
                 CommitHashCreate(cmd.commitHashes[k])[1] = "error"
         THEN /\ ucpc' = "thrown"
              /\ UNCHANGED <<hashes, valid>>
         ELSE /\ hashes' = [k \in 1..Len(cmd.commitHashes) |->
                              CommitHashCreate(cmd.commitHashes[k])[2]]
              /\ valid' = validateCommits(hashes')
              /\ ucpc' = IF Len(valid') = 0 THEN "thrown"
                         ELSE IF cmd.batchSize = 1 THEN "loop" ELSE "batch"
  /\ UNCHANGED <<cmd, i, analyzedCommits, processedCommits, failedCommits,
                 progressFile, csvFile, analyzeLog, quotaSeen, exhaustedAt>>
  /\ UNCHANGED <<cmVars, retryVars>>

\* the catch block of the sequential loop up to its await: failedCommits++,
\* processedCommits.push(hash), saveProgress is called
catchItem ==
  /\ failedCommits' = failedCommits + 1
  /\ processedCommits' = Append(processedCommits, valid[i + 1])
  /\ ucpc' = "saveOnFailure"

\* sequential loop, lines 80-94: the next commit is handed to
\* commitAnalysisService.analyzeCommit, which fetches it and calls the model
BeginItem ==
  /\ clock' = clock + 1
  /\ ucpc = "loop"
  /\ i < Len(valid)
  /\ analyzeLog' = Append(analyzeLog, valid[i + 1])
  /\ \E fetched \in BOOLEAN :
       IF fetched
         THEN /\ beginAnalyze
              /\ ucpc' = "analyzing"
              /\ UNCHANGED <<failedCommits, processedCommits>>
         ELSE /\ catchItem
              /\ UNCHANGED retryVars
  /\ UNCHANGED <<cmd, hashes, valid, i, analyzedCommits, progressFile,
                 csvFile, quotaSeen, exhaustedAt>>
  /\ UNCHANGED cmVars

itemDone_saveOnlyAtEnd(constructs) ==
  /\ ucpc = "analyzing"
  /\ rpc \in {"returned", "thrown"}
  /\ rpc' = "idle"
  /\ quotaSeen' = (quotaSeen \/ "daily quota" \in Range(callLog))
  /\ exhaustedAt' = IF exhaustedAt = 0 /\ rpc = "thrown" THEN i + 1
                    ELSE exhaustedAt
  /\ IF rpc = "returned" /\ constructs
       THEN /\ analyzedCommits' =
                 Append(analyzedCommits, AnalyzedCommit(valid[i + 1]))
            /\ processedCommits' = Append(processedCommits, valid[i + 1])
            /\ IF i + 1 = Len(valid)
                 THEN ucpc' = "savePeriodic" /\ UNCHANGED i
                 ELSE ucpc' = "loop" /\ i' = i + 1
            /\ UNCHANGED failedCommits
       ELSE /\ catchItem
            /\ UNCHANGED <<analyzedCommits, i>>

\* sequential loop, lines 92-140: analyzeCommit has returned or thrown; the
\* Analysis is constructed or its constructor throws
itemDone(constructs) ==
  /\ ucpc = "analyzing"
  /\ rpc \in {"returned", "thrown"}
  /\ rpc' = "idle"
  /\ quotaSeen' = (quotaSeen \/ "daily quota" \in Range(callLog))
  /\ exhaustedAt' = IF exhaustedAt = 0 /\ rpc = "thrown" THEN i + 1
                    ELSE exhaustedAt
  /\ IF rpc = "returned" /\ constructs
       THEN /\ analyzedCommits' =
                 Append(analyzedCommits, AnalyzedCommit(valid[i + 1]))
            /\ processedCommits' = Append(processedCommits, valid[i + 1])
            /\ IF \/ (i + 1) % cmd.saveProgressInterval = 0
                  \/ i + 1 = Len(valid)
                 THEN ucpc' = "savePeriodic" /\ UNCHANGED i
                 ELSE ucpc' = "loop" /\ i' = i + 1
            /\ UNCHANGED failedCommits
       ELSE /\ catchItem
            /\ UNCHANGED <<analyzedCommits, i>>

ItemDone ==
  /\ UNCHANGED clock
  /\ \E constructs \in BOOLEAN : itemDone(constructs)
  /\ UNCHANGED <<cmd, hashes, valid, progressFile, csvFile, analyzeLog>>
  /\ UNCHANGED <<llm, attempt, lastError, callLog, sleeps>>
  /\ UNCHANGED cmVars

\* lines 107-122: the periodic save inside the try block ends; when the
\* write fails the error lands in the catch block of the item
savePeriodicDone(written) ==
  /\ ucpc = "savePeriodic"
  /\ IF written
       THEN /\ progressFile' = <<checkpointContent(saveProgress(hashes, processedCommits,
                                   analyzedCommits, cmd.outputFile))>>
            /\ i' = i + 1
            /\ ucpc' = "loop"
            /\ UNCHANGED <<failedCommits, processedCommits>>
       ELSE /\ catchItem
            /\ UNCHANGED <<progressFile, i>>

SavePeriodicDone ==
  /\ UNCHANGED clock
  /\ \E written \in BOOLEAN : savePeriodicDone(written)
  /\ UNCHANGED <<cmd, hashes, valid, analyzedCommits, csvFile, analyzeLog,
                 quotaSeen, exhaustedAt>>
  /\ UNCHANGED <<cmVars, retryVars>>

\* lines 134-140: the save of the catch block ends; a failed write leaves
\* handle as its rejection
saveOnFailureDone(written) ==
  /\ ucpc = "saveOnFailure"
  /\ IF written
       THEN /\ progressFile' = <<checkpointContent(saveProgress(hashes, processedCommits,
                                   analyzedCommits, cmd.outputFile))>>
            /\ i' = i + 1
            /\ ucpc' = "loop"
       ELSE /\ ucpc' = "thrown"
            /\ UNCHANGED <<progressFile, i>>

SaveOnFailureDone ==
  /\ UNCHANGED clock
  /\ \E written \in BOOLEAN : saveOnFailureDone(written)
  /\ UNCHANGED <<cmd, hashes, valid, analyzedCommits, processedCommits,
                 failedCommits, csvFile, analyzeLog, quotaSeen, exhaustedAt>>
  /\ UNCHANGED <<cmVars, retryVars>>

\* batch.map(...) of processBatches: execute() is called for the tasks
\* first..last in order; yields <<manager, tasks started, tasks enqueued>>
RECURSIVE executeAll(_, _, _)
executeAll(c, first, last) ==
  IF first > last
    THEN <<c, <<>>, <<>>>>
    ELSE LET r == execute(c, first)
             rest == executeAll(r[1], first + 1, last)
         IN <<rest[1],
              r[2] \o rest[2],
              (IF r[2] = <<>> THEN <<first>> ELSE <<>>) \o rest[3]>>

\* the slice of valid that makes the current batch
batchEnd == Min(i + cmd.batchSize, Len(valid))

\* the place in an array of len elements that slice gives to the index k:
\* a negative index counts from the end, and both stay within 0..len
relativeIndex(len, k) ==
  IF k < 0
    THEN (IF len + k < 0 THEN 0 ELSE len + k)
    ELSE Min(k, len)

\* Array.prototype.slice(start, end)
slice(s, start, end) ==
  SubSeq(s, relativeIndex(Len(s), start) + 1, relativeIndex(Len(s), end))

batch == slice(valid, i, i + cmd.batchSize)

\* a % b === 0: the remainder is NaN for b = 0 and takes the sign of a
remainderIsZero(a, b) ==
  /\ b # 0
  /\ (IF a < 0 THEN 0 - a ELSE a) % (IF b < 0 THEN 0 - b ELSE b) = 0

\* processBatches, lines 214-265: the next batch is cut, a manager is made
\* and every commit of the batch is handed to execute()
BatchDispatch ==
  /\ clock' = Min(clock + 1, MaxClock)
  /\ ucpc = "batch"
  /\ i < Len(valid)
  /\ i > 0 - MaxRewind
  /\ LET r == executeAll(NewConcurrencyManager(DEFAULT_MAX_CONCURRENCY),
                         1, Len(batch))
     IN /\ cm' = r[1]
        /\ started' = r[2]
        /\ enqueued' = r[3]
        /\ analyzeLog' = analyzeLog \o [k \in 1..Len(r[2]) |-> batch[r[2][k]]]
  /\ submitted' = [k \in 1..Len(batch) |-> k]
  /\ outcome' = [t \in Tasks |-> <<"none">>]
  /\ settled' = [t \in Tasks |-> <<"pending">>]
  /\ ucpc' = "batchRun"
  /\ UNCHANGED <<cmd, hashes, valid, i, analyzedCommits, processedCommits,
                 failedCommits, progressFile, csvFile, quotaSeen,
                 exhaustedAt>>
  /\ UNCHANGED retryVars

\* lines 233-261 and runTask: the analysis of a running commit ends; the
\* task returns its result object, the slot is freed and the next queued
\* task starts
batchTaskDone(t, ok) ==
  /\ ucpc = "batchRun"
  /\ t \in InFlight
  /\ LET r == taskFinally(cm)
         res == <<"value", [success |-> ok, hash |-> batch[t]]>>
     IN /\ cm' = r[1]
        /\ started' = started \o r[2]
        /\ analyzeLog' = analyzeLog \o [k \in 1..Len(r[2]) |-> batch[r[2][k]]]
        /\ outcome' = [outcome EXCEPT ![t] = res]
        /\ settled' = [settled EXCEPT ![t] = settle(res)]

BatchTaskDone ==
  /\ UNCHANGED clock
  /\ \E t \in Tasks : \E ok \in BOOLEAN : batchTaskDone(t, ok)
  /\ UNCHANGED <<submitted, enqueued>>
  /\ UNCHANGED <<cmd, ucpc, hashes, valid, i, analyzedCommits,
                 processedCommits, failedCommits, progressFile, csvFile,
                 quotaSeen, exhaustedAt>>
  /\ UNCHANGED retryVars

\* the results of the batch in batch order
batchResults == [k \in 1..Len(batch) |-> settled[k][2][2]]

\* the fold of the results leaving out the hashes of the failed commits
BatchCollect_dropFailed ==
  /\ UNCHANGED clock
  /\ ucpc = "batchRun"
  /\ \A t \in Range(submitted) : settled[t] # <<"pending">>
  /\ processedCommits' = processedCommits \o
       [k \in 1..Len(SelectSeq(batchResults, LAMBDA x : x.success)) |->
          SelectSeq(batchResults, LAMBDA x : x.success)[k].hash]
  /\ analyzedCommits' = analyzedCommits \o
       [k \in 1..Len(SelectSeq(batchResults, LAMBDA x : x.success)) |->
          AnalyzedCommit(SelectSeq(batchResults, LAMBDA x : x.success)[k].hash)]
  /\ failedCommits' = failedCommits +
       Len(SelectSeq(batchResults, LAMBDA x : ~x.success))
  /\ IF \/ remainderIsZero(i + cmd.batchSize,
                            cmd.saveProgressInterval * cmd.batchSize)
        \/ i + cmd.batchSize >= Len(valid)
       THEN ucpc' = "batchSave" /\ UNCHANGED i
       ELSE ucpc' = "batch" /\ i' = i + cmd.batchSize
  /\ UNCHANGED <<cmd, hashes, valid, progressFile, csvFile, analyzeLog,
                 quotaSeen, exhaustedAt>>
  /\ UNCHANGED <<cmVars, retryVars>>

\* the fold of the results taking the batch from its last commit to its first
BatchCollect_lastFirst ==
  /\ UNCHANGED clock
  /\ ucpc = "batchRun"
  /\ \A t \in Range(submitted) : settled[t] # <<"pending">>
  /\ processedCommits' = processedCommits \o
       [k \in 1..Len(batch) |-> batchResults[Len(batch) + 1 - k].hash]
  /\ analyzedCommits' = analyzedCommits \o
       [k \in 1..Len(SelectSeq(batchResults, LAMBDA x : x.success)) |->
          AnalyzedCommit(SelectSeq(batchResults, LAMBDA x : x.success)[
            Len(SelectSeq(batchResults, LAMBDA x : x.success)) + 1 - k].hash)]
  /\ failedCommits' = failedCommits +
       Len(SelectSeq(batchResults, LAMBDA x : ~x.success))
  /\ IF \/ remainderIsZero(i + cmd.batchSize,
                            cmd.saveProgressInterval * cmd.batchSize)
        \/ i + cmd.batchSize >= Len(valid)
       THEN ucpc' = "batchSave" /\ UNCHANGED i
       ELSE ucpc' = "batch" /\ i' = i + cmd.batchSize
  /\ UNCHANGED <<cmd, hashes, valid, progressFile, csvFile, analyzeLog,
                 quotaSeen, exhaustedAt>>
  /\ UNCHANGED <<cmVars, retryVars>>

\* lines 265-295: Promise.all has resolved; the results are folded into the
\* accumulators and the save condition is evaluated
BatchCollect ==
  /\ UNCHANGED clock
  /\ ucpc = "batchRun"
  /\ \A t \in Range(submitted) : settled[t] # <<"pending">>
  /\ processedCommits' = processedCommits \o
       [k \in 1..Len(batch) |-> batchResults[k].hash]
  /\ analyzedCommits' = analyzedCommits \o
       [k \in 1..Len(SelectSeq(batchResults, LAMBDA x : x.success)) |->
          AnalyzedCommit(SelectSeq(batchResults, LAMBDA x : x.success)[k].hash)]
  /\ failedCommits' = failedCommits +
       Len(SelectSeq(batchResults, LAMBDA x : ~x.success))
  /\ IF \/ remainderIsZero(i + cmd.batchSize,
                            cmd.saveProgressInterval * cmd.batchSize)
        \/ i + cmd.batchSize >= Len(valid)
       THEN ucpc' = "batchSave" /\ UNCHANGED i
       ELSE ucpc' = "batch" /\ i' = i + cmd.batchSize
  /\ UNCHANGED <<cmd, hashes, valid, progressFile, csvFile, analyzeLog,
                 quotaSeen, exhaustedAt>>
  /\ UNCHANGED <<cmVars, retryVars>>

\* lines 283-288: the save after a batch ends; a failed write leaves
\* processBatches and handle as their rejection
batchSaveDone(written) ==
  /\ ucpc = "batchSave"
  /\ IF written
       THEN /\ progressFile' = <<checkpointContent(saveProgress(hashes, processedCommits,
                                   analyzedCommits, cmd.outputFile))>>
            /\ i' = i + cmd.batchSize
            /\ ucpc' = "batch"
       ELSE /\ ucpc' = "thrown"
            /\ UNCHANGED <<progressFile, i>>

BatchSaveDone ==
  /\ UNCHANGED clock
  /\ \E written \in BOOLEAN : batchSaveDone(written)
  /\ UNCHANGED <<cmd, hashes, valid, analyzedCommits, processedCommits,
                 failedCommits, csvFile, analyzeLog, quotaSeen, exhaustedAt>>
  /\ UNCHANGED <<cmVars, retryVars>>

\* lines 167-176: export of the accumulated analyses and the return
exportAndReturn(written) ==
  /\ ucpc \in {"loop", "batch"}
  /\ i >= Len(valid)
  /\ IF Len(analyzedCommits) > 0
       THEN IF written
              THEN csvFile' = <<analyzedCommits>> /\ ucpc' = "returned"
              ELSE ucpc' = "thrown" /\ UNCHANGED csvFile
       ELSE ucpc' = "returned" /\ UNCHANGED csvFile

ExportAndReturn ==
  /\ UNCHANGED clock
  /\ \E written \in BOOLEAN : exportAndReturn(written)
  /\ UNCHANGED <<cmd, hashes, valid, i, analyzedCommits, processedCommits,
                 failedCommits, progressFile, analyzeLog, quotaSeen,
                 exhaustedAt>>
  /\ UNCHANGED <<cmVars, retryVars>>

(***************************************************************************)
(* JSONProgressTracker on its store (json-progress-tracker.ts with         *)
(* FileSystemStorageAdapter): a caller holding a ProgressState calls the   *)
(* methods of the tracker in any order.                                    *)
(***************************************************************************)

\* the elements of s at the positions in S, in order
Pick(s, S) ==
  LET idx == SelectSeq([k \in 1..Len(s) |-> k], LAMBDA k : k \in S)
  IN [j \in 1..Len(idx) |-> s[idx[j]]]

Reverse(s) == [k \in 1..Len(s) |-> s[Len(s) + 1 - k]]

\* lists of all commits of a batch: the first n commits, also with the
\* first commit listed a second time at the end
TotalLists ==
  {FirstCommits(n) : n \in 0..MaxStored}
  \cup {FirstCommits(n) \o <<CommitId(1)>> : n \in 2..3}

\* lists of processed commits for a batch: any part of the batch in its
\* order, the whole batch in reverse, or a part with its last entry twice
ProcessedLists(total) ==
  {Pick(total, S) : S \in SUBSET (1..Len(total))}
  \cup {Reverse(total)}
  \cup {Pick(total, 1..n) \o <<total[n]>> : n \in 1..Min(2, Len(total))}

\* the states a caller may hold: of the processed commits the first m were
\* analyzed
ProgressStates ==
  UNION {
    UNION {
      {[totalCommits |-> total,
        processedCommits |-> processed,
        analyzedCommits |-> [k \in 1..m |-> AnalyzedCommit(processed[k])],
        lastProcessedIndex |-> Len(processed) - 1,
        startTime |-> Date(19700),
        outputFile |-> "out.csv"] : m \in {0, Min(2, Len(processed))}}
      : processed \in ProcessedLists(total)}
    : total \in TotalLists}

\* a stored record of the right shape, and records with one field of the
\* wrong shape or an identifier CommitHash.create rejects
StoredSample ==
  serializeProgressState(
    [totalCommits |-> FirstCommits(2),
     processedCommits |-> FirstCommits(1),
     analyzedCommits |-> <<>>,
     lastProcessedIndex |-> 0,
     startTime |-> Date(19700),
     outputFile |-> "out.csv"])

MisshapenRecords ==
  {[StoredSample EXCEPT !.totalCommits = <<"undefined">>],
   [StoredSample EXCEPT !.processedCommits = <<"string", "abc1">>],
   [StoredSample EXCEPT !.lastProcessedIndex = <<"string", "0">>],
   [StoredSample EXCEPT !.startTime = <<"number", 19700>>],
   [StoredSample EXCEPT !.outputFile = <<"undefined">>],
   [StoredSample EXCEPT !.totalCommits = <<"array", <<MalformedId>>>>]}

\* records with a field of the wrong shape that validateProgressData does
\* not test: analyzedCommits that is no array, a startTime that is no date
UntestedRecords ==
  {[StoredSample EXCEPT !.analyzedCommits = <<"string", "none">>],
   [StoredSample EXCEPT !.startTime = <<"string", <<"text", "soon">>>>]}

\* what the store may hold before the first call: nothing, a file that is
\* no JSON, or a file written by some other hand
InitialFiles ==
  {<<>>, <<<<"garbage">>>>, <<JSONstringify(StoredSample)>>}
  \cup {<<JSONstringify(r)>> : r \in MisshapenRecords \cup UntestedRecords}

TrackerIdle ==
  tr = [revision |-> "4.infrastructure", file |-> <<>>, state |-> <<>>,
        op |-> "none", io |-> TRUE, ret |-> <<"void">>, prev |-> "none"]

TrackerStart ==
  tr \in [revision : Revisions, file : InitialFiles,
          state : {<<s>> : s \in ProgressStates},
          op : {"none"}, io : {TRUE}, ret : {<<"void">>}, prev : {"none"}]

\* saveProgress(state): the serialized state is written, or writeFile throws
TrackerSaveProgress ==
  /\ \E written \in BOOLEAN :
       tr' = [tr EXCEPT
                !.file = IF written THEN <<checkpointContent(tr.state[1])>>
                         ELSE @,
                !.op = "saveProgress", !.io = written, !.prev = tr.op,
                !.ret = IF written THEN <<"void">>
                        ELSE <<"throw", "Failed to write file">>]
  /\ UNCHANGED <<cmVars, retryVars, ucVars, cpVars, rsVars, libVars>>

TrackerLoadProgress ==
  /\ \E readable \in BOOLEAN :
       tr' = [tr EXCEPT
                !.op = "loadProgress", !.io = readable, !.prev = tr.op,
                !.ret = loadProgress(tr.revision, tr.file, readable)]
  /\ UNCHANGED <<cmVars, retryVars, ucVars, cpVars, rsVars, libVars>>

TrackerHasProgress ==
  /\ tr' = [tr EXCEPT !.op = "hasProgress", !.io = TRUE, !.prev = tr.op,
                      !.ret = <<"boolean", hasProgress(tr.file)>>]
  /\ UNCHANGED <<cmVars, retryVars, ucVars, cpVars, rsVars, libVars>>

TrackerClearProgress ==
  /\ \E deleted \in BOOLEAN :
       LET r == clearProgress(tr.file, deleted)
       IN tr' = [tr EXCEPT
                   !.file = r[1],
                   !.op = "clearProgress", !.io = deleted, !.prev = tr.op,
                   !.ret = IF r[2] = "ok" THEN <<"void">>
                           ELSE <<"throw", "Failed to delete file">>]
  /\ UNCHANGED <<cmVars, retryVars, ucVars, cpVars, rsVars, libVars>>

TrackerGetRemainingCommits ==
  /\ tr' = [tr EXCEPT !.op = "getRemainingCommits", !.io = TRUE,
                      !.prev = tr.op,
                      !.ret = <<"commits", remainingCommits(tr.state[1])>>]
  /\ UNCHANGED <<cmVars, retryVars, ucVars, cpVars, rsVars, libVars>>

TrackerNext ==
  \/ TrackerSaveProgress
  \/ TrackerLoadProgress
  \/ TrackerHasProgress
  \/ TrackerClearProgress
  \/ TrackerGetRemainingCommits

(***************************************************************************)
(* ResumeAnalysisUseCase.handle (unnamed/part_002) on the checkpoint an    *)
(* earlier run of AnalyzeCommitsUseCase.handle left in the store.          *)
(***************************************************************************)

\* the instant the resuming process starts at
ResumeClock == 5

\* the checkpoints the sequential loop of an earlier run wrote before it
\* was interrupted: the first k valid commits are processed, and of these
\* the first m were analyzed (the others failed)
InterruptedCheckpoints ==
  UNION {
    UNION {
      {[totalCommits |-> list,
        processedCommits |-> SubSeq(validateCommits(list), 1, k),
        analyzedCommits |->
          [j \in 1..m |-> AnalyzedCommit(validateCommits(list)[j])],
        lastProcessedIndex |-> k - 1,
        startTime |-> Date(2),
        outputFile |-> "out.csv"] : m \in {0, 1, k}}
      : k \in 1..Len(validateCommits(list))}
    : list \in {l \in CommitLists :
                  \A j \in 1..Len(l) : CommitHashCreate(l[j])[1] = "ok"}}

ResumeFiles ==
  InitialFiles \cup {<<checkpointContent(s)>> : s \in InterruptedCheckpoints}

\* the hashes of the analyzed commits a stored checkpoint holds
storedAnalyzed(file) ==
  IF file = <<>> \/ file[1][1] # "json" THEN <<>>
  ELSE IF typeof(file[1][2].analyzedCommits) # "array" THEN <<>>
  ELSE HashesOf(file[1][2].analyzedCommits[2])

ResumeIdle ==
  rs = [pc |-> "off", revision |-> "4.infrastructure", stored |-> <<>>,
        file |-> <<>>, readable |-> TRUE, loaded |-> <<"none">>,
        remaining |-> <<>>, result |-> <<"none">>]

ResumeStart ==
  /\ rs \in [pc : {"start"}, revision : Revisions, stored : {<<>>},
             file : {<<>>}, readable : {TRUE}, loaded : {<<"none">>},
             remaining : {<<>>}, result : {<<"none">>}]
  /\ cmd = [commitHashes |-> <<>>, outputFile |-> "out.csv",
            saveProgressInterval |-> DEFAULT_PROGRESS_INTERVAL,
            batchSize |-> DEFAULT_BATCH_SIZE]
  /\ ucpc = "off"
  /\ hashes = <<>>
  /\ valid = <<>>
  /\ i = 0
  /\ analyzedCommits = <<>>
  /\ processedCommits = <<>>
  /\ failedCommits = 0
  /\ progressFile \in ResumeFiles
  /\ csvFile = <<>>
  /\ analyzeLog = <<>>
  /\ quotaSeen = FALSE
  /\ exhaustedAt = 0
  /\ clock = ResumeClock

\* resumeHandle restarting the whole batch: handle is given totalCommits
resumeHandle_wholeBatch(readable, deleted) ==
  LET l == loadProgress(rs.revision, progressFile, readable)
      remaining == remainingCommits(l[2])
      r == clearProgress(progressFile, deleted)
  IN IF ~hasProgress(progressFile) \/ l[1] # "state"
       THEN /\ rs' = [rs EXCEPT !.pc = "returned",
                                !.loaded = l, !.readable = readable,
                                !.stored = storedAnalyzed(progressFile),
                                !.file = progressFile,
                                !.result = <<"null">>]
            /\ UNCHANGED <<cmd, ucpc, progressFile>>
       ELSE IF Len(remaining) = 0
         THEN /\ progressFile' = r[1]
              /\ rs' = [rs EXCEPT
                          !.pc = IF r[2] = "ok" THEN "returned" ELSE "thrown",
                          !.loaded = l, !.readable = readable,
                          !.stored = storedAnalyzed(progressFile),
                          !.file = progressFile,
                          !.result =
                            IF r[2] = "ok"
                              THEN <<"result",
                                     [analyzedCommits |-> l[2].analyzedCommits,
                                      failedCommits |-> 0,
                                      totalProcessed |->
                                        Len(l[2].processedCommits)]>>
                              ELSE <<"throw">>]
              /\ UNCHANGED <<cmd, ucpc>>
         ELSE /\ cmd' = [commitHashes |-> l[2].totalCommits,
                         outputFile |-> l[2].outputFile,
                         saveProgressInterval |-> DEFAULT_PROGRESS_INTERVAL,
                         batchSize |-> DEFAULT_BATCH_SIZE]
              /\ ucpc' = "start"
              /\ rs' = [rs EXCEPT !.pc = "inner",
                                  !.loaded = l, !.readable = readable,
                                  !.stored = storedAnalyzed(progressFile),
                                  !.file = progressFile,
                                  !.remaining = remaining]
              /\ UNCHANGED progressFile

\* handle, lines 28-84: up to the call of analyzeCommitsUseCase.handle
resumeHandle(readable, deleted) ==
  LET l == loadProgress(rs.revision, progressFile, readable)
      remaining == remainingCommits(l[2])
      r == clearProgress(progressFile, deleted)
  IN IF ~hasProgress(progressFile) \/ l[1] # "state"
       THEN /\ rs' = [rs EXCEPT !.pc = "returned",
                                !.loaded = l, !.readable = readable,
                                !.stored = storedAnalyzed(progressFile),
                                !.file = progressFile,
                                !.result = <<"null">>]
            /\ UNCHANGED <<cmd, ucpc, progressFile>>
       ELSE IF Len(remaining) = 0
         THEN /\ progressFile' = r[1]
              /\ rs' = [rs EXCEPT
                          !.pc = IF r[2] = "ok" THEN "returned" ELSE "thrown",
                          !.loaded = l, !.readable = readable,
                          !.stored = storedAnalyzed(progressFile),
                          !.file = progressFile,
                          !.result =
                            IF r[2] = "ok"
                              THEN <<"result",
                                     [analyzedCommits |-> l[2].analyzedCommits,
                                      failedCommits |-> 0,
                                      totalProcessed |->
                                        Len(l[2].processedCommits)]>>
                              ELSE <<"throw">>]
              /\ UNCHANGED <<cmd, ucpc>>
         ELSE /\ cmd' = [commitHashes |-> remaining,
                         outputFile |-> l[2].outputFile,
                         saveProgressInterval |-> DEFAULT_PROGRESS_INTERVAL,
                         batchSize |-> DEFAULT_BATCH_SIZE]
              /\ ucpc' = "start"
              /\ rs' = [rs EXCEPT !.pc = "inner",
                                  !.loaded = l, !.readable = readable,
                                  !.stored = storedAnalyzed(progressFile),
                                  !.file = progressFile,
                                  !.remaining = remaining]
              /\ UNCHANGED progressFile

ResumeHandle ==
  /\ rs.pc = "start"
  /\ \E readable \in BOOLEAN, deleted \in BOOLEAN :
       resumeHandle(readable, deleted)
  /\ UNCHANGED <<hashes, valid, i, analyzedCommits, processedCommits,
                 failedCommits, csvFile, analyzeLog, quotaSeen,
                 exhaustedAt, clock>>
  /\ UNCHANGED <<cmVars, retryVars, cpVars, trVars, libVars>>

\* handle, lines 80-93: the inner handle has settled; its result is
\* combined with the analyses of the checkpoint, its rejection is passed on
ResumeReturn ==
  /\ rs.pc = "inner"
  /\ ucpc \in {"returned", "thrown"}
  /\ rs' = [rs EXCEPT
              !.pc = ucpc,
              !.result =
                IF ucpc = "returned"
                  THEN <<"result",
                         [analyzedCommits |->
                            rs.loaded[2].analyzedCommits \o analyzedCommits,
                          failedCommits |-> failedCommits,
                          totalProcessed |->
                            Len(rs.loaded[2].processedCommits)
                              + Len(processedCommits)]>>
                  ELSE <<"throw">>]
  /\ UNCHANGED <<ucVars, cmVars, retryVars, cpVars, trVars, libVars>>

\* the inner handle runs with the default batch size, i.e. sequentially
ResumeNext ==
  \/ ResumeHandle
  \/ ResumeReturn
  \/ /\ \/ HandleStart
        \/ BeginItem
        \/ AdapterAttempt
        \/ SleepDone
        \/ ItemDone
        \/ SavePeriodicDone
        \/ SaveOnFailureDone
        \/ ExportAndReturn
     /\ UNCHANGED <<cpVars, trVars, rsVars, libVars>>

(***************************************************************************)
(* CommitProcessor.processCommits (src/commit-processor.ts) with the       *)
(* checkpoint file of ProgressTracker and the export of CSVService.        *)
(***************************************************************************)
PROGRESS_SAVE_INTERVAL == 10

\* GitService.validateCommitHash: git rev-parse --verify succeeds
validateCommitHash(hash) == hash \in Repository

\* ProgressTracker.createProgressState: startTime is kept from the
\* checkpoint on disk when there is one
createProgressState(file, now, totalCommits, processed, analyzed, outputFile) ==
  [totalCommits |-> totalCommits,
   processedCommits |-> processed,
   analyzedCommits |-> analyzed,
   lastProcessedIndex |-> Len(processed) - 1,
   startTime |-> IF file # <<>> THEN file[1].startTime ELSE now,
   outputFile |-> outputFile]

\* ProgressTracker.getRemainingCommits
getRemainingCommits(state) ==
  SelectSeq(state.totalCommits,
            LAMBDA h : h \notin Range(state.processedCommits))

\* main: a run on the commits given on the command line, no checkpoint
FreshRun(list) ==
  [pc |-> "loop", output |-> "out.csv",
   commitsToAnalyze |-> list,
   processedCommits |-> <<>>,
   analyzedCommits |-> <<>>,
   allCommitsToAnalyze |-> list,
   failedCommits |-> 0, index |-> 0, overallIndex |-> 0, now |-> 1,
   checkpointFile |-> <<>>, csvFile |-> <<>>,
   resumed |-> <<>>, tried |-> <<>>, succeeded |-> <<>>, thrownAt |-> 0]

\* the checkpoint an earlier run on the first n commits left when it
\* stopped at commit k
EarlierCheckpoint(n, k) ==
  createProgressState(<<>>, 0, FirstCommits(n), FirstCommits(k),
                      [j \in 1..(k - 1) |-> AnalyzedCommit(CommitId(j))],
                      "out.csv")

\* SessionManager.handleResumeMode and main: a run resumed from state
ResumedRun(state) ==
  [pc |-> "loop", output |-> state.outputFile,
   commitsToAnalyze |-> getRemainingCommits(state),
   processedCommits |-> state.processedCommits,
   analyzedCommits |-> state.analyzedCommits,
   allCommitsToAnalyze |->
     state.processedCommits \o getRemainingCommits(state),
   failedCommits |-> 0, index |-> 0, overallIndex |-> 0, now |-> 1,
   checkpointFile |-> <<state>>,
   csvFile |-> IF state.analyzedCommits = <<>> THEN <<>>
               ELSE <<state.analyzedCommits>>,
   resumed |-> state.analyzedCommits,
   tried |-> <<>>, succeeded |-> <<>>, thrownAt |-> 0]

CPIdle == cp = [FreshRun(<<>>) EXCEPT !.pc = "off"]

\* runs long enough to pass PROGRESS_SAVE_INTERVAL processed commits
LongRuns ==
  {FreshRun(FirstCommits(MaxLongRun)),
   ResumedRun(EarlierCheckpoint(MaxLongRun, 1))}

CPStart ==
  cp \in {FreshRun(list) : list \in CommitLists}
         \cup {ResumedRun(EarlierCheckpoint(nk[1], nk[2])) :
                 nk \in {x \in (1..MaxCommits) \X (1..MaxCommits) :
                           x[2] <= x[1]}}
         \cup LongRuns

\* the LLMService the processor calls: the model is chosen by the user,
\* LLM_MAX_RETRIES by the environment
ServiceIdle ==
  /\ llm \in {c \in LLMConfigs :
                /\ c.impl = "LLMService"
                /\ c.MAX_RETRIES <= MAX_RETRIES_DEFAULT
                /\ c.delays = DefaultDelays}
  /\ rpc = "idle"
  /\ attempt = 1
  /\ lastError = <<"null">>
  /\ callLog = <<>>
  /\ sleeps = <<>>

\* handleProcessingError, lines 243-272, entered in state c: the checkpoint
\* is written, the partial results are exported, process.exit(1); a write
\* that throws leaves processCommits as its rejection
handleProcessingError(c, written, exported) ==
  IF ~written
    THEN [c EXCEPT !.pc = "thrown"]
    ELSE LET s == [c EXCEPT !.checkpointFile =
                      <<createProgressState(c.checkpointFile, c.now,
                          c.allCommitsToAnalyze, c.processedCommits,
                          c.analyzedCommits, c.output)>>]
         IN IF Len(c.analyzedCommits) > 0
              THEN IF exported
                     THEN [s EXCEPT !.csvFile = <<c.analyzedCommits>>,
                                    !.pc = "exited"]
                     ELSE [s EXCEPT !.pc = "thrown"]
              ELSE [s EXCEPT !.pc = "exited"]

catchBlock_continue(c, written, exported) ==
  LET d == [c EXCEPT !.failedCommits = @ + 1,
                     !.processedCommits =
                       Append(@, c.commitsToAnalyze[c.index + 1])]
  IN IF ~written
       THEN [d EXCEPT !.pc = "thrown"]
       ELSE [d EXCEPT !.checkpointFile =
                        <<createProgressState(d.checkpointFile, d.now,
                            d.allCommitsToAnalyze, d.processedCommits,
                            d.analyzedCommits, d.output)>>,
                      !.index = @ + 1,
                      !.pc = "loop"]

\* the catch block, lines 223-237
catchBlock(c, written, exported) ==
  handleProcessingError(
    [c EXCEPT !.failedCommits = @ + 1,
              !.processedCommits =
                Append(@, c.commitsToAnalyze[c.index + 1])],
    written, exported)

\* lines 176-193: the head of an iteration; an invalid hash is counted and
\* skipped, else the commit is fetched and LLMService.analyzeCommit called
cpBeginItem(fetched, written, exported) ==
  /\ cp.pc = "loop"
  /\ cp.index < Len(cp.commitsToAnalyze)
  /\ LET hash == cp.commitsToAnalyze[cp.index + 1]
         c == [cp EXCEPT !.overallIndex =
                           Len(cp.processedCommits) + cp.index + 1,
                         !.now = @ + 1]
         t == [c EXCEPT !.tried = Append(@, cp.index + 1)]
     IN IF ~validateCommitHash(hash)
          THEN /\ cp' = [c EXCEPT !.failedCommits = @ + 1,
                                  !.processedCommits = Append(@, hash),
                                  !.index = @ + 1]
               /\ UNCHANGED retryVars
          ELSE IF fetched
            THEN /\ beginAnalyze
                 /\ cp' = [t EXCEPT !.pc = "analyzing"]
            ELSE /\ cp' = catchBlock([t EXCEPT !.thrownAt = cp.index + 1],
                                     written, exported)
                 /\ UNCHANGED retryVars

CPBeginItem ==
  /\ \E fetched, written, exported \in BOOLEAN :
       cpBeginItem(fetched, written, exported)
  /\ UNCHANGED <<cmVars, ucVars, trVars, rsVars, libVars>>

\* lines 193-237: LLMService.analyzeCommit has returned or thrown; on
\* success the commit is recorded and the checkpoint written when due, and
\* whatever the try block throws is handled by the catch block
cpItemDone(written, rewritten, exported) ==
  /\ cp.pc = "analyzing"
  /\ rpc \in {"returned", "thrown"}
  /\ rpc' = "idle"
  /\ LET hash == cp.commitsToAnalyze[cp.index + 1]
         c == [cp EXCEPT !.analyzedCommits = Append(@, AnalyzedCommit(hash)),
                         !.processedCommits = Append(@, hash),
                         !.succeeded = Append(@, hash)]
     IN IF rpc = "returned"
          THEN IF \/ cp.overallIndex % PROGRESS_SAVE_INTERVAL = 0
                  \/ cp.index = Len(cp.commitsToAnalyze) - 1
                 THEN IF written
                        THEN cp' = [c EXCEPT !.checkpointFile =
                                      <<createProgressState(c.checkpointFile,
                                          c.now, c.allCommitsToAnalyze,
                                          c.processedCommits,
                                          c.analyzedCommits, c.output)>>,
                                    !.index = @ + 1,
                                    !.pc = "loop"]
                        ELSE cp' = catchBlock(c, rewritten, exported)
                 ELSE cp' = [c EXCEPT !.index = @ + 1, !.pc = "loop"]
          ELSE cp' = catchBlock([cp EXCEPT !.thrownAt = cp.index + 1],
                                rewritten, exported)
  /\ UNCHANGED <<llm, attempt, lastError, callLog, sleeps>>

CPItemDone ==
  /\ \E written, rewritten, exported \in BOOLEAN :
       cpItemDone(written, rewritten, exported)
  /\ UNCHANGED <<cmVars, ucVars, trVars, rsVars, libVars>>

\* line 240: the loop is over, the result is returned
CPReturn ==
  /\ cp.pc = "loop"
  /\ cp.index = Len(cp.commitsToAnalyze)
  /\ cp' = [cp EXCEPT !.pc = "returned"]
  /\ UNCHANGED <<cmVars, retryVars, ucVars, trVars, rsVars, libVars>>

CPNext ==
  \/ CPBeginItem
  \/ ServiceAttempt
  \/ SleepDone
  \/ CPItemDone
  \/ CPReturn

(***************************************************************************)
(* LLMAdapter.buildPrompt and LLMAdapter.truncatePrompt                    *)
(* (4.infrastructure/llm-adapter.ts). A string is a sequence of pieces     *)
(* [src, from, len]: the len characters of the text src that start at its  *)
(* character from.                                                         *)
(***************************************************************************)

Piece(src, from, len) == [src |-> src, from |-> from, len |-> len]

\* the whole text src, of len characters
Text(src, len) == IF len = 0 THEN <<>> ELSE <<Piece(src, 1, len)>>

\* string.length
RECURSIVE StrLen(_)
StrLen(s) == IF s = <<>> THEN 0 ELSE Head(s).len + StrLen(Tail(s))

\* string.substring(n)
RECURSIVE Drop(_, _)
Drop(s, n) ==
  IF n <= 0 \/ s = <<>> THEN s
  ELSE IF Head(s).len <= n THEN Drop(Tail(s), n - Head(s).len)
  ELSE <<Piece(Head(s).src, Head(s).from + n, Head(s).len - n)>> \o Tail(s)

\* string.substring(0, n)
RECURSIVE Take(_, _)
Take(s, n) ==
  IF n <= 0 \/ s = <<>> THEN <<>>
  ELSE IF Head(s).len <= n THEN <<Head(s)>> \o Take(Tail(s), n - Head(s).len)
  ELSE <<Piece(Head(s).src, Head(s).from, n)>>

\* the number of digits of n written in decimal
RECURSIVE Digits(_)
Digits(n) == IF n < 10 THEN 1 ELSE 1 + Digits(n \div 10)

\* the texts of the template of buildPrompt: 'Analyze this git commit ...
\* COMMIT MESSAGE:\n', the blank line, 'COMMIT DIFF:\n', and the text from
\* the blank line before 'Based on the commit message ...' to its end
IntroLength == 71
SeparatorLength == 2
DiffHeaderLength == 13
InstructionsLength == 567

Intro == Text("intro", IntroLength)
Separator == Text("separator", SeparatorLength)
DiffHeader == Text("COMMIT DIFF:", DiffHeaderLength)
Instructions == Text("instructions", InstructionsLength)

\* a commit message of n characters, and one that quotes the line
\* 'COMMIT DIFF:' after its first half
PlainMessage(n) == Text("message", n)
QuotingMessage(n) ==
  Take(Text("message", n), n \div 2) \o DiffHeader
    \o Drop(Text("message", n), n \div 2)

\* LLMAdapter.buildPrompt
buildPrompt(commitMessage, diff) ==
  Intro \o commitMessage \o Separator \o DiffHeader \o diff \o Instructions

\* prompt.indexOf("COMMIT DIFF:"): the characters before the first piece
\* that starts the header line, -1 when there is none
RECURSIVE indexOfDiffHeader(_)
indexOfDiffHeader(s) ==
  IF s = <<>> THEN -1
  ELSE IF Head(s).src = "COMMIT DIFF:" /\ Head(s).from = 1
            /\ Head(s).len >= DiffHeaderLength - 1
    THEN 0
    ELSE LET r == indexOfDiffHeader(Tail(s))
         IN IF r = -1 THEN -1 ELSE Head(s).len + r

\* the texts truncatePrompt appends: the notice with the original length in
\* it, and '\n\nBased on the commit message and code changes, categorize
\* this commit...', whose first 70 characters are those of Instructions
NoticePrefixLength == 37
NoticeSuffixLength == 12
truncationNotice(length) ==
  Text("notice", NoticePrefixLength + Digits(length) + NoticeSuffixLength)

SharedInstructionLength == 70
ShortInstruction ==
  Take(Instructions, SharedInstructionLength) \o Text("...", 3)

PROMPT_BUFFER == 500
MIN_DIFF_LENGTH == 1000

Max(a, b) == IF a > b THEN a ELSE b

\* LLMAdapter.truncatePrompt
truncatePrompt(prompt, maxLength) ==
  IF StrLen(prompt) <= maxLength THEN prompt
  ELSE LET diffStartIndex == indexOfDiffHeader(prompt)
           beforeDiff == Take(prompt, diffStartIndex)
           afterDiffHeader == Drop(prompt, diffStartIndex)
           diffHeaderEnd == DiffHeaderLength
           diffHeader == Take(afterDiffHeader, diffHeaderEnd)
           diffContent == Drop(afterDiffHeader, diffHeaderEnd)
           overhead == StrLen(beforeDiff) + StrLen(diffHeader) + PROMPT_BUFFER
           maxDiffLength == Max(MIN_DIFF_LENGTH, maxLength - overhead)
       IN IF diffStartIndex = -1 THEN prompt
          ELSE IF StrLen(diffContent) > maxDiffLength
            THEN beforeDiff \o diffHeader \o Take(diffContent, maxDiffLength)
                   \o truncationNotice(StrLen(diffContent))
                   \o ShortInstruction
            ELSE prompt

\* ClaudeLLMAdapter.MAX_PROMPT_LENGTH, with CLAUDE_MAX_PROMPT_LENGTH unset
MAX_PROMPT_LENGTH == 100000

\* the limits getMaxPromptLength() returns: the default and one set by
\* CLAUDE_MAX_PROMPT_LENGTH
PromptLimits == {MAX_PROMPT_LENGTH, 4000}

MessageLengths == {1, 60, 900, 3000, 98000, 98900, 99500, 120000}

DiffLengths == {0, 1, 400, 1000, 3000, 50000, 99400, 150000}

Messages ==
  {PlainMessage(n) : n \in MessageLengths}
  \cup {QuotingMessage(n) : n \in {60, 3000}}

PromptStart ==
  call \in [fn : {"truncatePrompt"},
            commitMessage : Messages,
            diff : {Text("diff", n) : n \in DiffLengths},
            maxLength : PromptLimits,
            ret : {<<"none">>}]

\* executeModelCommand: the prompt of buildPrompt goes through
\* truncatePrompt
TruncatePrompt ==
  /\ call.fn = "truncatePrompt"
  /\ call.ret = <<"none">>
  /\ call' = [call EXCEPT
                !.ret = <<"string",
                          truncatePrompt(buildPrompt(call.commitMessage,
                                                     call.diff),
                                         call.maxLength)>>]
  /\ UNCHANGED <<cmVars, retryVars, ucVars, cpVars, trVars, rsVars, cache>>

PromptNext == TruncatePrompt

(***************************************************************************)
(* CommitHash (domain/value-objects/CommitHash.ts): create, getValue and   *)
(* equals on arbitrary arguments. A JavaScript value is <<"string", s>>,   *)
(* <<"number", n>> or <<"undefined">>.                                     *)
(***************************************************************************)

\* CommitHash.create on any value: lines 8-10 reject what is no string
createCommitHash(value) ==
  IF typeof(value) # "string"
    THEN <<"error", "Commit hash cannot be empty">>
    ELSE CommitHashCreate(value[2])

\* CommitHash.getValue and CommitHash.equals; a CommitHash is its value
getValue(commitHash) == commitHash
equals(commitHash, other) == getValue(commitHash) = getValue(other)

\* all strings over the alphabet of at most n characters
RECURSIVE StringsUpTo(_, _)
StringsUpTo(alphabet, n) ==
  IF n = 0 THEN {<<>>}
  ELSE LET shorter == StringsUpTo(alphabet, n - 1)
       IN shorter \cup {Append(s, c) : s \in shorter, c \in alphabet}

Repeat(c, n) == [k \in 1..n |-> c]

\* the arguments create is called with: short strings with lower case,
\* upper case, digits and a letter that is no hexadecimal digit, strings
\* around the longest hash, and values that are no string
HashAlphabet == {"a", "A", "9", "g"}

HashArguments ==
  {<<"string", s>> : s \in StringsUpTo(HashAlphabet, MaxShortHash)}
  \cup {<<"string", Repeat("a", n)>> : n \in {39, 40, 41}}
  \cup {<<"string", Append(Repeat("a", 39), c)>> : c \in {"F", "g", "\n"}}
  \cup {<<"string", <<"a", "b", "c", "d", "\n">>>>,
        <<"undefined">>, <<"number", 1234>>}

HashStart ==
  call \in [fn : {"CommitHash.create"},
            hash : HashArguments,
            other : {<<"string", <<"a", "a", "a", "a">>>>,
                     <<"string", <<"A", "a", "a", "a">>>>,
                     <<"string", <<"a", "a", "a", "a", "a">>>>},
            ret : {<<"none">>}]

\* create(hash), create(other) and, when both exist, equals
HashCreate ==
  /\ call.fn = "CommitHash.create"
  /\ call.ret = <<"none">>
  /\ LET a == createCommitHash(call.hash)
         b == createCommitHash(call.other)
     IN call' = [call EXCEPT
                   !.ret = <<"done", a, b,
                             IF a[1] = "ok" /\ b[1] = "ok"
                               THEN <<"boolean", equals(a[2], b[2])>>
                               ELSE <<"none">>>>]
  /\ UNCHANGED <<cmVars, retryVars, ucVars, cpVars, trVars, rsVars, cache>>

HashNext == HashCreate

\* the default texts of the fallback tier: "Code changes", "Commit contains
\* code changes", "This commit contains code changes."
CodeChanges ==
  <<"C", "o", "d", "e", " ", "c", "h", "a", "n", "g", "e", "s">>
CommitContainsCodeChanges ==
  <<"C", "o", "m", "m", "i", "t", " ", "c", "o", "n", "t", "a", "i", "n",
    "s", " ">> \o <<"c", "o", "d", "e", " ", "c", "h", "a", "n", "g", "e",
    "s">>
ThisCommitContainsCodeChanges ==
  <<"T", "h", "i", "s", " ", "c", "o", "m", "m", "i", "t", " ", "c", "o",
    "n", "t", "a", "i", "n", "s", " ">> \o <<"c", "o", "d", "e", " ", "c",
    "h", "a", "n", "g", "e", "s", ".">>

(***************************************************************************)
(* LLMAdapter.parseResponse and ClaudeLLMAdapter.parseResponse             *)
(* (4.infrastructure). A response is given by what the regular expressions *)
(* of the two tiers find in it; texts are sequences of characters.         *)
(***************************************************************************)

\* !value of JavaScript on the values met here
truthy(value) ==
  CASE typeof(value) = "undefined" -> FALSE
    [] typeof(value) = "string" -> value[2] # <<>>
    [] typeof(value) = "number" -> value[2] # 0
    [] OTHER -> TRUE

\* LLMAdapter.isValidCategory
isValidCategory(category) ==
  typeof(category) = "string" /\ category[2] \in VALID_CATEGORIES

\* string.substring(0, n), string.replace(/[*"]/g, '') and string.trim()
\* on texts
substring0(text, n) == SubSeq(text, 1, Min(n, Len(text)))
stripMarks(text) == SelectSeq(text, LAMBDA c : c \notin {"*", "\""})

RECURSIVE trimStart(_)
trimStart(text) ==
  IF text # <<>> /\ Head(text) = " " THEN trimStart(Tail(text)) ELSE text

trim(text) == Reverse(trimStart(Reverse(trimStart(text))))

\* category.toLowerCase() on the spellings the patterns match
toLowerCase(word) ==
  CASE word = "Feature" -> "feature"
    [] word = "PROCESS" -> "process"
    [] OTHER -> word

\* the strict tier returning the summary as it is, without substring(0, 80)
parseResponse_noTruncate(response) ==
  IF response.json[1] = "none"
    THEN <<"error", "Failed to parse LLM response: No JSON block found">>
  ELSE IF response.json[1] = "unparsable"
    THEN <<"error", "Failed to parse LLM response: SyntaxError">>
  ELSE LET parsed == response.json[2]
       IN IF ~isValidCategory(parsed.category)
            THEN <<"error", "Failed to parse LLM response: Invalid category">>
          ELSE IF ~truthy(parsed.summary) \/ ~truthy(parsed.description)
            THEN <<"error",
                   "Failed to parse LLM response: Missing required fields">>
          ELSE IF typeof(parsed.summary) # "string"
            THEN <<"error",
                   "Failed to parse LLM response: substring is not a function">>
          ELSE <<"ok", [category |-> parsed.category[2],
                        summary |-> parsed.summary,
                        description |-> parsed.description]>>

\* LLMAdapter.parseResponse, the strict tier: <<"ok", value>>, or
\* <<"error", message>> for the error it throws
parseResponse(response) ==
  IF response.json[1] = "none"
    THEN <<"error", "Failed to parse LLM response: No JSON block found">>
  ELSE IF response.json[1] = "unparsable"
    THEN <<"error", "Failed to parse LLM response: SyntaxError">>
  ELSE LET parsed == response.json[2]
       IN IF ~isValidCategory(parsed.category)
            THEN <<"error", "Failed to parse LLM response: Invalid category">>
          ELSE IF ~truthy(parsed.summary) \/ ~truthy(parsed.description)
            THEN <<"error",
                   "Failed to parse LLM response: Missing required fields">>
          ELSE IF typeof(parsed.summary) # "string"
            THEN <<"error",
                   "Failed to parse LLM response: substring is not a function">>
          ELSE <<"ok", [category |-> parsed.category[2],
                        summary |-> <<"string",
                                      substring0(parsed.summary[2],
                                                 MAX_SUMMARY_LENGTH)>>,
                        description |-> parsed.description]>>

\* ClaudeLLMAdapter.parseClaudeNaturalLanguageResponse, the fallback tier
parseClaudeNaturalLanguageResponse(response) ==
  LET category == IF response.categoryMatch[1] = "match"
                    THEN toLowerCase(response.categoryMatch[2])
                    ELSE ""
      matched == IF response.summaryMatch[1] = "match"
                   THEN trim(response.summaryMatch[2])
                   ELSE <<>>
      summary0 == IF matched # <<>> THEN matched
                  ELSE IF response.keywordLine[1] = "match"
                    THEN trim(response.keywordLine[2])
                    ELSE CodeChanges
      summary1 == IF summary0 = <<>> THEN CodeChanges ELSE summary0
      described == IF response.descMatch[1] = "match"
                     THEN trim(response.descMatch[2])
                     ELSE <<>>
      description0 == IF described # <<>> THEN described
                      ELSE IF response.sentence[1] = "match"
                        THEN trim(response.sentence[2])
                        ELSE CommitContainsCodeChanges
      description1 == IF description0 = <<>> THEN CommitContainsCodeChanges
                      ELSE description0
      summary == trim(stripMarks(substring0(summary1, MAX_SUMMARY_LENGTH)))
      description == trim(stripMarks(description1))
  IN IF category = "" \/ category \notin VALID_CATEGORIES
       THEN <<"error",
              "Could not extract valid category from Claude response">>
       ELSE <<"ok", [category |-> category,
                     summary |-> <<"string",
                                   IF summary = <<>> THEN CodeChanges
                                   ELSE summary>>,
                     description |->
                       <<"string",
                         IF description = <<>>
                           THEN ThisCommitContainsCodeChanges
                           ELSE description>>]>>

\* ClaudeLLMAdapter.parseResponse: [strict, fallbackRan, result]
claudeParseResponse(response) ==
  LET strict == parseResponse(response)
  IN IF strict[1] = "ok"
       THEN [strict |-> strict, fallbackRan |-> FALSE, result |-> strict]
       ELSE [strict |-> strict, fallbackRan |-> TRUE,
             result |-> parseClaudeNaturalLanguageResponse(response)]

\* texts the model may write: short, of 80, 81 and 120 characters, blank,
\* and made of or wrapped in the marks the fallback tier removes
ResponseTexts ==
  {Repeat("x", n) : n \in {1, MAX_SUMMARY_LENGTH, MAX_SUMMARY_LENGTH + 1,
                           MaxTextLength}}
  \cup {<<" ">>, <<"*", "*">>, <<"*", "x", "*">>, <<" ", "x", " ">>,
        Repeat(" ", MAX_SUMMARY_LENGTH) \o <<"x">>}

\* the JSON block of a response: absent, no JSON, or an object
JsonBlocks ==
  {<<"none">>, <<"unparsable">>}
  \cup {<<"object", o>> :
          o \in [category : {<<"string", "tweak">>, <<"string", "Feature">>,
                             <<"string", "bugfix">>, <<"undefined">>},
                 summary : {<<"undefined">>, <<"string", <<>>>>,
                            <<"number", 7>>}
                           \cup {<<"string", s>> : s \in ResponseTexts},
                 description : {<<"undefined">>, <<"string", <<>>>>,
                                <<"number", 7>>, <<"string", <<"x">>>>}]}

Matches(texts) == {<<"none">>} \cup {<<"match", s>> : s \in texts}

Responses ==
  [json : JsonBlocks,
   categoryMatch : Matches({"tweak", "Feature", "PROCESS"}),
   summaryMatch : Matches({<<" ">>, <<"*", "*">>, <<"*", "x", "*">>,
                           Repeat("x", MaxTextLength)}),
   keywordLine : Matches({<<"*", "f", "i", "x", "*">>}),
   descMatch : Matches({<<" ">>, <<"\"", "\"">>, <<"x">>}),
   sentence : Matches({Repeat("*", 21)})]

ParseStart ==
  call \in [fn : {"parseResponse"}, response : Responses,
            ret : {<<"none">>}]

ParseResponse ==
  /\ call.fn = "parseResponse"
  /\ call.ret = <<"none">>
  /\ call' = [call EXCEPT
                !.ret = <<"done", claudeParseResponse(call.response)>>]
  /\ UNCHANGED <<cmVars, retryVars, ucVars, cpVars, trVars, rsVars, cache>>

ParseNext == ParseResponse

(***************************************************************************)
(* CachedAnalysisRepository.analyze over CacheService                      *)
(* (src/4.infrastructure/cached-analysis-repository.ts and                 *)
(* cache-service.ts).  The cache directory is a function from commit       *)
(* hashes to files; a file is <<"none">> or <<"file", mtime, content>>,    *)
(* its content <<"corrupt">> or <<"entry", e>>.  Time is counted in days.  *)
(***************************************************************************)
DEFAULT_TTL_DAYS == 30

CacheHashes == {"abc1", "def2"}

\* the analyses the base repository may return
BaseAnalyses ==
  {[category |-> c, summary |-> SampleSummary,
    description |-> SampleDescription] : c \in {"feature", "tweak"}}

\* the CacheEntry that CacheService.set writes for an analysis
cacheEntry(commitHash, analysis) ==
  [hash |-> commitHash, category |-> analysis.category,
   summary |-> analysis.summary, description |-> analysis.description]

\* what a cache directory left by earlier runs may hold for a hash: nothing,
\* an entry, a file that is no JSON, the entry of another hash, an entry
\* that Analysis or Category refuses
InitialCacheFiles(commitHash) ==
  {<<"none">>, <<"file", 0, <<"corrupt">>>>}
  \cup {<<"file", 0, <<"entry", cacheEntry(commitHash, a)>>>> :
          a \in BaseAnalyses}
  \cup {<<"file", 0,
          <<"entry", [hash |-> "fff9", category |-> "feature",
                      summary |-> SampleSummary,
                      description |-> SampleDescription]>>>>,
        <<"file", 0,
          <<"entry", [hash |-> commitHash, category |-> "bugfix",
                      summary |-> SampleSummary,
                      description |-> SampleDescription]>>>>,
        <<"file", 0,
          <<"entry", [hash |-> commitHash, category |-> "feature",
                      summary |-> SampleSummary,
                      description |-> <<"x">>]>>>>}

\* CacheService.delete
cacheDelete(files, commitHash) == [files EXCEPT ![commitHash] = <<"none">>]

\* CacheService.get: the analysis or null, and the directory it leaves
cacheGet(files, cacheEnabled, now, commitHash) ==
  LET file == files[commitHash]
      null == [ret |-> <<"null">>, files |-> files]
  IN IF ~cacheEnabled
       THEN null
       ELSE IF file[1] = "none"
         THEN null
         ELSE IF now - file[2] > DEFAULT_TTL_DAYS
           THEN [ret |-> <<"null">>, files |-> cacheDelete(files, commitHash)]
           ELSE IF file[3][1] = "corrupt"
             THEN null
             ELSE
               LET entry == file[3][2]
                   category == CategoryCreate(entry.category)
                   analysis ==
                     NewAnalysis(category[2], entry.summary,
                                 entry.description)
               IN IF entry.hash # commitHash
                    THEN [ret |-> <<"null">>,
                          files |-> cacheDelete(files, commitHash)]
                    ELSE IF category[1] = "error" \/ analysis[1] = "error"
                      THEN null
                      ELSE [ret |-> <<"analysis", analysis[2]>>,
                            files |-> files]

\* CacheService.set with CacheService.initialize: the directory and the
\* enabled flag it leaves; mkdirOk and writeOk are the outcomes of fs.mkdir
\* and fs.writeFile
cacheSet(files, cacheEnabled, now, commitHash, analysis, mkdirOk, writeOk) ==
  IF ~cacheEnabled
    THEN [files |-> files, cacheEnabled |-> cacheEnabled]
    ELSE [files |->
            IF writeOk
              THEN [files EXCEPT
                      ![commitHash] =
                        <<"file", now,
                          <<"entry", cacheEntry(commitHash, analysis)>>>>]
              ELSE files,
          cacheEnabled |-> mkdirOk]

\* analyze going to the base repository without a look at the cache
cachedAnalyze_noGet(files, cacheEnabled, now, commitHash, base, mkdirOk, writeOk) ==
  LET stored == cacheSet(files, cacheEnabled, now, commitHash, base[2],
                         mkdirOk, writeOk)
  IN IF base[1] = "error"
       THEN [ret |-> <<"error", "analysis failed">>, baseCalls |-> 1,
             files |-> files, cacheEnabled |-> cacheEnabled]
       ELSE [ret |-> <<"ok", base[2]>>, baseCalls |-> 1,
             files |-> stored.files, cacheEnabled |-> stored.cacheEnabled]

\* CachedAnalysisRepository.analyze; base is the outcome the base
\* repository has when it is called
cachedAnalyze(files, cacheEnabled, now, commitHash, base, mkdirOk, writeOk) ==
  LET cached == cacheGet(files, cacheEnabled, now, commitHash)
      stored == cacheSet(cached.files, cacheEnabled, now, commitHash,
                         base[2], mkdirOk, writeOk)
  IN IF cached.ret[1] = "analysis"
       THEN [ret |-> <<"ok", cached.ret[2]>>, baseCalls |-> 0,
             files |-> cached.files, cacheEnabled |-> cacheEnabled]
       ELSE IF base[1] = "error"
         THEN [ret |-> <<"error", "analysis failed">>, baseCalls |-> 1,
               files |-> cached.files, cacheEnabled |-> cacheEnabled]
         ELSE [ret |-> <<"ok", base[2]>>, baseCalls |-> 1,
               files |-> stored.files, cacheEnabled |-> stored.cacheEnabled]

BaseOutcomes ==
  {<<"ok", a>> : a \in BaseAnalyses} \cup {<<"error", "analysis failed">>}

\* cache.last is the latest analyze: its arguments, the cache as it found
\* it, and what it did
CacheStart ==
  /\ cache \in [pc : {"on"},
                cacheEnabled : BOOLEAN,
                now : {0},
                files : {f \in [CacheHashes -> UNION {InitialCacheFiles(h) :
                                                       h \in CacheHashes}] :
                           \A h \in CacheHashes :
                             f[h] \in InitialCacheFiles(h)},
                calls : {0},
                last : {<<"none">>}]

CacheAnalyze ==
  /\ cache.pc = "on"
  /\ cache.calls < MaxCacheCalls
  /\ \E commitHash \in CacheHashes, base \in BaseOutcomes,
        mkdirOk \in BOOLEAN, writeOk \in BOOLEAN :
       LET done == cachedAnalyze(cache.files, cache.cacheEnabled, cache.now,
                                 commitHash, base, mkdirOk, writeOk)
       IN cache' = [cache EXCEPT
                      !.files = done.files,
                      !.cacheEnabled = done.cacheEnabled,
                      !.calls = @ + 1,
                      !.last = <<"analyze",
                                 [commitHash |-> commitHash,
                                  files |-> cache.files,
                                  cacheEnabled |-> cache.cacheEnabled,
                                  now |-> cache.now,
                                  writeOk |-> writeOk,
                                  ret |-> done.ret,
                                  baseCalls |-> done.baseCalls]>>]
  /\ UNCHANGED <<cmVars, retryVars, ucVars, cpVars, trVars, rsVars, call>>

\* half the time to live passes
CacheTick ==
  /\ cache.pc = "on"
  /\ cache.now + DEFAULT_TTL_DAYS \div 2 <= MaxCacheDays
  /\ cache' = [cache EXCEPT !.now = @ + DEFAULT_TTL_DAYS \div 2]
  /\ UNCHANGED <<cmVars, retryVars, ucVars, cpVars, trVars, rsVars, call>>

CacheNext == CacheAnalyze \/ CacheTick

(***************************************************************************)
(* The two CSV imports: CSVService.importFromCSV                           *)
(* (src/4.infrastructure/csv-service.ts) and CSVReaderService.readCSV      *)
(* (src/csv-reader.ts).  A file is its header and the lines after it;      *)
(* a line is a sequence of characters.                                     *)
(***************************************************************************)
\* a well-formed row: 2024,feature,fix,description
GoodLine ==
  <<"2", "0", "2", "4", ",", "f", "e", "a", "t", "u", "r", "e", ",", "f",
    "i", "x", ",", "d", "e", "s", "c", "r", "i", "p", "t", "i", "o", "n">>

\* a well-formed row with a quoted comma and doubled quotes: 2023,tweak,"a,b","say ""hi"" now"
QuotedLine ==
  <<"2", "0", "2", "3", ",", "t", "w", "e", "a", "k", ",", "\"", "a", ",",
    "b", "\"", ",", "\"", "s", "a", "y", " ", "\"", "\"", "h", "i", "\"",
    "\"", " ", "n", "o", "w", "\"">>

\* four fields, a year, a category, a summary and a description of 5 characters: 2024,process,fix,short
ShortDescriptionLine ==
  <<"2", "0", "2", "4", ",", "p", "r", "o", "c", "e", "s", "s", ",", "f",
    "i", "x", ",", "s", "h", "o", "r", "t">>

\* a wrong field count: 2024,feature,fix
ThreeFieldsLine ==
  <<"2", "0", "2", "4", ",", "f", "e", "a", "t", "u", "r", "e", ",", "f",
    "i", "x">>

\* a year before 1900: 1800,feature,fix,description
EarlyYearLine ==
  <<"1", "8", "0", "0", ",", "f", "e", "a", "t", "u", "r", "e", ",", "f",
    "i", "x", ",", "d", "e", "s", "c", "r", "i", "p", "t", "i", "o", "n">>

\* a year that is no number: x,feature,fix,description
NoYearLine ==
  <<"x", ",", "f", "e", "a", "t", "u", "r", "e", ",", "f", "i", "x", ",",
    "d", "e", "s", "c", "r", "i", "p", "t", "i", "o", "n">>

\* an invalid category: 2024,bugfix,fix,description
BadCategoryLine ==
  <<"2", "0", "2", "4", ",", "b", "u", "g", "f", "i", "x", ",", "f", "i",
    "x", ",", "d", "e", "s", "c", "r", "i", "p", "t", "i", "o", "n">>

\* an empty summary: 2024,feature, ,description
BlankSummaryLine ==
  <<"2", "0", "2", "4", ",", "f", "e", "a", "t", "u", "r", "e", ",", " ",
    ",", "d", "e", "s", "c", "r", "i", "p", "t", "i", "o", "n">>

\* an empty description: 2024,feature,fix, 
BlankDescriptionLine ==
  <<"2", "0", "2", "4", ",", "f", "e", "a", "t", "u", "r", "e", ",", "f",
    "i", "x", ",", " ">>

BlankLine == <<>>

MalformedLines ==
  {ThreeFieldsLine, EarlyYearLine, NoYearLine, BadCategoryLine,
   BlankSummaryLine, BlankDescriptionLine}

CsvLines ==
  {GoodLine, QuotedLine, ShortDescriptionLine, BlankLine}
  \cup MalformedLines

\* the header line of a file, and header.toLowerCase()
CsvHeaders ==
  {"year,category,summary,description", "Year,Category,Summary,Description",
   "timestamp,category,summary,description"}

headerToLowerCase(header) ==
  IF header = "Year,Category,Summary,Description"
    THEN "year,category,summary,description"
    ELSE header

\* parseCSVFields, the same in both classes: the loop from an index on
RECURSIVE parseCSVFieldsFrom(_, _, _, _, _)
parseCSVFieldsFrom(line, index, currentField, inQuotes, fields) ==
  IF index > Len(line)
    THEN Append(fields, currentField)
    ELSE IF line[index] = "\""
      THEN IF inQuotes /\ index + 1 <= Len(line) /\ line[index + 1] = "\""
             THEN parseCSVFieldsFrom(line, index + 2,
                                     Append(currentField, "\""), inQuotes,
                                     fields)
             ELSE parseCSVFieldsFrom(line, index + 1, currentField, ~inQuotes,
                                     fields)
      ELSE IF line[index] = "," /\ ~inQuotes
        THEN parseCSVFieldsFrom(line, index + 1, <<>>, inQuotes,
                                Append(fields, currentField))
        ELSE parseCSVFieldsFrom(line, index + 1,
                                Append(currentField, line[index]), inQuotes,
                                fields)

parseCSVFields(line) == parseCSVFieldsFrom(line, 1, <<>>, FALSE, <<>>)

\* parseInt(text, 10) on texts without a sign: the number that the digits
\* after the leading blanks spell, or NaN
DecimalDigits ==
  [c \in {"0", "1", "2", "3", "4", "5", "6", "7", "8", "9"} |->
     CASE c = "0" -> 0 [] c = "1" -> 1 [] c = "2" -> 2 [] c = "3" -> 3
       [] c = "4" -> 4 [] c = "5" -> 5 [] c = "6" -> 6 [] c = "7" -> 7
       [] c = "8" -> 8 [] OTHER -> 9]

RECURSIVE parseDigits(_, _)
parseDigits(text, n) ==
  IF text # <<>> /\ Head(text) \in DOMAIN DecimalDigits
    THEN parseDigits(Tail(text), 10 * n + DecimalDigits[Head(text)])
    ELSE n

parseInt(text) ==
  LET digits == trimStart(text)
  IN IF digits # <<>> /\ Head(digits) \in DOMAIN DecimalDigits
       THEN <<"number", parseDigits(digits, 0)>>
       ELSE <<"NaN">>

\* the category a field spells
FeatureText ==
  <<"f", "e", "a", "t", "u", "r", "e">>
TweakText ==
  <<"t", "w", "e", "a", "k">>
ProcessText ==
  <<"p", "r", "o", "c", "e", "s", "s">>

categoryOf(text) ==
  CASE text = FeatureText -> "feature"
    [] text = TweakText -> "tweak"
    [] text = ProcessText -> "process"
    [] OTHER -> "other"

MIN_YEAR == 1900
MAX_YEAR == 2100

\* CSVReaderService.parseCSVLine: <<"ok", row>> or <<"error", message>>
parseCSVLine(line) ==
  LET fields == parseCSVFields(line)
      year == parseInt(fields[1])
  IN IF Len(fields) # 4
       THEN <<"error", "Expected 4 fields">>
       ELSE IF year[1] = "NaN" \/ year[2] < MIN_YEAR \/ year[2] > MAX_YEAR
         THEN <<"error", "Invalid year">>
         ELSE IF categoryOf(fields[2]) \notin VALID_CATEGORIES
           THEN <<"error", "Invalid category">>
           ELSE IF trim(fields[3]) = <<>>
             THEN <<"error", "Summary field cannot be empty">>
             ELSE IF trim(fields[4]) = <<>>
               THEN <<"error", "Description field cannot be empty">>
               ELSE <<"ok", [year |-> year[2],
                             category |-> categoryOf(fields[2]),
                             summary |-> trim(fields[3]),
                             description |-> trim(fields[4])]>>

\* CSVService.parseCSVRow; of the AnalyzedCommit it builds, the year of its
\* date and its analysis are kept
parseCSVRow(row) ==
  LET checked == parseCSVLine(row)
      category == CategoryCreate(checked[2].category)
      analysis == NewAnalysis(category[2], checked[2].summary,
                              checked[2].description)
  IN IF checked[1] = "error"
       THEN checked
       ELSE IF category[1] = "error"
         THEN category
         ELSE IF analysis[1] = "error"
           THEN analysis
           ELSE <<"ok", [year |-> checked[2].year,
                         category |-> analysis[2].category,
                         summary |-> analysis[2].summary,
                         description |-> analysis[2].description]>>

\* the loop of CSVService.parseCSV: a row that throws is warned of and left
\* out
RECURSIVE serviceRows(_)
serviceRows(dataRows) ==
  IF dataRows = <<>>
    THEN <<>>
    ELSE LET commit == parseCSVRow(Head(dataRows))
         IN IF commit[1] = "ok"
              THEN <<commit[2]>> \o serviceRows(Tail(dataRows))
              ELSE serviceRows(Tail(dataRows))

\* CSVService.parseCSV on the lines of a file
serviceParseCSV(header, rows) ==
  LET lines == SelectSeq(rows, LAMBDA line : trim(line) # <<>>)
  IN IF Len(lines) < 1
       THEN <<"error", "Invalid CSV format: no data rows found">>
       ELSE IF headerToLowerCase(header)
                 # "year,category,summary,description"
         THEN <<"error", "Invalid CSV format. Expected header">>
         ELSE <<"ok", serviceRows(lines)>>

\* the loop of CSVReaderService.parseCSV: the first row that throws ends it
\* with an error
RECURSIVE readerRows(_, _)
readerRows(lines, rows) ==
  IF lines = <<>>
    THEN <<"ok", rows>>
    ELSE IF trim(Head(lines)) = <<>>
      THEN readerRows(Tail(lines), rows)
      ELSE LET row == parseCSVLine(trim(Head(lines)))
           IN IF row[1] = "ok"
                THEN readerRows(Tail(lines), Append(rows, row[2]))
                ELSE <<"error", "Error parsing CSV line">>

\* CSVReaderService.parseCSV on the lines of a file
readerParseCSV(header, rows) ==
  IF headerToLowerCase(header) # "year,category,summary,description"
    THEN <<"error", "Invalid CSV format. Expected header">>
    ELSE readerRows(rows, <<>>)

CsvStart ==
  call \in [fn : {"parseCSV"},
            header : CsvHeaders,
            rows : UNION {[1..n -> CsvLines] : n \in 0..MaxCsvRows},
            imported : {<<"none">>},
            read : {<<"none">>}]

ImportFromCSV ==
  /\ call.fn = "parseCSV"
  /\ call.imported = <<"none">>
  /\ call' = [call EXCEPT
                !.imported =
                  <<"done", serviceParseCSV(call.header, call.rows)>>]
  /\ UNCHANGED <<cmVars, retryVars, ucVars, cpVars, trVars, rsVars, cache>>

ReadCSV ==
  /\ call.fn = "parseCSV"
  /\ call.read = <<"none">>
  /\ call' = [call EXCEPT
                !.read = <<"done", readerParseCSV(call.header, call.rows)>>]
  /\ UNCHANGED <<cmVars, retryVars, ucVars, cpVars, trVars, rsVars, cache>>

CsvNext == ImportFromCSV \/ ReadCSV

(***************************************************************************)
(* LLMAnalysisRepository.analyze                                           *)
(* (src/4.infrastructure/llm-analysis-repository.ts) over the retry loop   *)
(* of LLMAdapter.analyzeCommit: the model answers the k-th invocation      *)
(* with the k-th response of call.responses.                               *)
(***************************************************************************)
JsonResponse(category, summary, description) ==
  [json |-> <<"object", [category |-> <<"string", category>>,
                         summary |-> <<"string", summary>>,
                         description |-> <<"string", description>>]>>]

WellFormedResponse == JsonResponse("feature", SampleSummary, SampleDescription)
NoJsonResponse == [json |-> <<"none">>]
InvalidCategoryResponse ==
  JsonResponse("bugfix", SampleSummary, SampleDescription)
EmptySummaryResponse == JsonResponse("feature", <<>>, SampleDescription)
ShortDescriptionResponse ==
  JsonResponse("feature", SampleSummary, <<"s", "h", "o", "r", "t">>)

UnusableResponses ==
  {NoJsonResponse, InvalidCategoryResponse, EmptySummaryResponse,
   ShortDescriptionResponse}

RepositoryStart ==
  call \in [fn : {"analyze"},
            responses : [1..MAX_RETRIES_DEFAULT ->
                           UnusableResponses \cup {WellFormedResponse}],
            parsed : {<<"none">>},
            ret : {<<"none">>}]

\* analyze is called and calls llmService.analyzeCommit
RepositoryAnalyze ==
  /\ call.fn = "analyze"
  /\ call.ret = <<"none">>
  /\ call.parsed = <<"none">>
  /\ beginAnalyze
  /\ UNCHANGED <<cmVars, ucVars, cpVars, trVars, rsVars, libVars>>

\* one iteration of the retry loop: executeModelCommand returns the next
\* response and parseResponse returns or throws inside the try block
RepositoryAttempt ==
  /\ call.fn = "analyze"
  /\ rpc = "call"
  /\ LET parsed == parseResponse(call.responses[attempt])
     IN /\ adapterAttempt(IF parsed[1] = "ok" THEN <<"ok">>
                          ELSE <<"error", ErrParse>>)
        /\ call' = [call EXCEPT !.parsed = parsed]
  /\ UNCHANGED <<cmVars, ucVars, cpVars, trVars, rsVars, cache>>

\* the backoff sleep of the loop ends
RepositorySleepDone ==
  /\ call.fn = "analyze"
  /\ sleepDone
  /\ UNCHANGED <<cmVars, ucVars, cpVars, trVars, rsVars, libVars>>

\* analyzeCommit has returned or thrown: lines 18-24 build the Analysis of
\* the result, or the rejection leaves analyze
RepositoryReturn ==
  /\ call.fn = "analyze"
  /\ call.ret = <<"none">>
  /\ rpc \in {"returned", "thrown"}
  /\ call' = [call EXCEPT
                !.ret =
                  IF rpc = "thrown"
                    THEN <<"error", "Failed to analyze commit">>
                    ELSE NewAnalysis(call.parsed[2].category,
                                     call.parsed[2].summary[2],
                                     call.parsed[2].description[2])]
  /\ rpc' = "idle"
  /\ UNCHANGED <<llm, attempt, lastError, callLog, sleeps>>
  /\ UNCHANGED <<cmVars, ucVars, cpVars, trVars, rsVars, cache>>

RepositoryNext ==
  \/ RepositoryAnalyze
  \/ RepositoryAttempt
  \/ RepositorySleepDone
  \/ RepositoryReturn

CPInit ==
  CPStart /\ ServiceIdle /\ CMIdle /\ UCIdle /\ TrackerIdle /\ ResumeIdle
  /\ LibIdle

SpecCP == CPInit /\ [][CPNext]_vars

TrackerInit ==
  TrackerStart /\ RetryIdle /\ CMIdle /\ UCIdle /\ CPIdle /\ ResumeIdle
  /\ LibIdle

SpecTracker == TrackerInit /\ [][TrackerNext]_vars

ResumeInit ==
  ResumeStart /\ RetryIdle /\ CMIdle /\ CPIdle /\ TrackerIdle /\ LibIdle

SpecResume == ResumeInit /\ [][ResumeNext]_vars

PromptInit ==
  PromptStart /\ CacheIdle /\ RetryIdle /\ CMIdle /\ UCIdle /\ CPIdle
  /\ TrackerIdle /\ ResumeIdle

SpecPrompt == PromptInit /\ [][PromptNext]_vars

HashInit ==
  HashStart /\ CacheIdle /\ RetryIdle /\ CMIdle /\ UCIdle /\ CPIdle
  /\ TrackerIdle /\ ResumeIdle

SpecHash == HashInit /\ [][HashNext]_vars

ParseInit ==
  ParseStart /\ CacheIdle /\ RetryIdle /\ CMIdle /\ UCIdle /\ CPIdle
  /\ TrackerIdle /\ ResumeIdle

SpecParse == ParseInit /\ [][ParseNext]_vars

CacheInit ==
  CacheStart /\ CallIdle /\ RetryIdle /\ CMIdle /\ UCIdle /\ CPIdle
  /\ TrackerIdle /\ ResumeIdle

SpecCache == CacheInit /\ [][CacheNext]_vars

CsvInit ==
  CsvStart /\ CacheIdle /\ RetryIdle /\ CMIdle /\ UCIdle /\ CPIdle
  /\ TrackerIdle /\ ResumeIdle

SpecCsv == CsvInit /\ [][CsvNext]_vars

RepositoryInit ==
  RepositoryStart /\ CacheIdle /\ RetryIdle /\ CMIdle /\ UCIdle /\ CPIdle
  /\ TrackerIdle /\ ResumeIdle

SpecRepository == RepositoryInit /\ [][RepositoryNext]_vars

UCNext ==
  /\ \/ HandleStart
     \/ BeginItem
     \/ AdapterAttempt
     \/ SleepDone
     \/ ItemDone
     \/ SavePeriodicDone
     \/ SaveOnFailureDone
     \/ BatchDispatch
     \/ BatchTaskDone
     \/ BatchCollect
     \/ BatchSaveDone
     \/ ExportAndReturn
  /\ UNCHANGED <<cpVars, trVars, rsVars, libVars>>

UCInit ==
  UCStart /\ RetryIdle /\ CMIdle /\ CPIdle /\ TrackerIdle /\ ResumeIdle
  /\ LibIdle

SpecUC == UCInit /\ [][UCNext]_vars

CliInit ==
  CliStart /\ RetryIdle /\ CMIdle /\ CPIdle /\ TrackerIdle /\ ResumeIdle
  /\ LibIdle

\* every analysis, every wait and every write that handle awaits ends
SpecCli == CliInit /\ [][UCNext]_vars /\ WF_vars(UCNext)

\* result.totalProcessed of handle
totalProcessed == Len(processedCommits)

RetryInit ==
  RetryStart /\ CMIdle /\ UCIdle /\ CPIdle /\ TrackerIdle /\ ResumeIdle
  /\ LibIdle

SpecRetry == RetryInit /\ [][RetryNext]_vars


CMInit ==
  CMStart /\ RetryIdle /\ UCIdle /\ CPIdle /\ TrackerIdle /\ ResumeIdle
  /\ LibIdle

SpecCM == CMInit /\ [][CMNext]_vars

\* every fn() handed to execute() eventually settles
SpecCMFair ==
  /\ CMInit /\ [][CMNext]_vars
  /\ \A t \in Tasks :
       WF_vars(/\ \E ok \in BOOLEAN : Finish(t, ok)
               /\ UNCHANGED <<retryVars, ucVars, cpVars, trVars, rsVars, libVars>>)

StartCount(t) == Len(SelectSeq(started, LAMBDA x : x = t))

IsPrefix(s, t) == Len(s) <= Len(t) /\ SubSeq(t, 1, Len(s)) = s

(***************************************************************************)
(* C1: the number of tasks started and not yet finished never exceeds      *)
(* maxConcurrency, and the running counter never drops below 0.            *)
(***************************************************************************)
C1_AtMostMaxRunning ==
  /\ Cardinality(InFlight) <= cm.maxConcurrency
  /\ cm.running >= 0

C1_Witness ==
  /\ cm.maxConcurrency = MaxConc
  /\ Cardinality(InFlight) = MaxConc
  /\ Len(cm.queue) > 0
  /\ \E t \in Tasks : outcome[t] = TaskResult(t, FALSE)

(***************************************************************************)
(* C2: with maxConcurrency >= 1 and every task finishing, each task passed *)
(* to execute is started exactly once and its promise eventually settles   *)
(* with that task's own value or error; a failed task frees its slot.      *)
(***************************************************************************)
C2_EveryTaskSettlesWithOwnOutcome ==
  /\ [](\A t \in Tasks :
         /\ StartCount(t) <= 1
         /\ settled[t] # <<"pending">> =>
              /\ outcome[t] \in {TaskResult(t, TRUE), TaskResult(t, FALSE)}
              /\ settled[t] = IF outcome[t] = TaskResult(t, TRUE)
                                THEN <<"resolved", <<"value", t>>>>
                                ELSE <<"rejected", <<"error", t>>>>)
  /\ \A t \in Tasks :
       [](t \in Range(submitted) /\ cm.maxConcurrency >= 1
            => <>(settled[t] # <<"pending">> /\ StartCount(t) = 1))

\* a queued task has started after a task that failed
C2_Witness ==
  /\ cm.maxConcurrency >= 1
  /\ \E t \in Range(enqueued) :
       /\ settled[t] = <<"resolved", <<"value", t>>>>
       /\ \E u \in Tasks : u < t /\ settled[u] = <<"rejected", <<"error", u>>>>

(***************************************************************************)
(* C3: tasks that execute had to enqueue are started in the order in which *)
(* they were enqueued.                                                     *)
(***************************************************************************)
C3_QueuedTasksStartFIFO ==
  IsPrefix(SelectSeq(started, LAMBDA t : t \in Range(enqueued)), enqueued)

C3_Witness ==
  /\ Len(enqueued) >= 3
  /\ Len(SelectSeq(started, LAMBDA t : t \in Range(enqueued))) >= 2

(***************************************************************************)
(* C4: with retry enabled, LLMAdapter.analyzeCommit invokes the external   *)
(* model at most MAX_RETRIES times, returns at the first attempt whose     *)
(* response parses, throws only after MAX_RETRIES failed attempts in a     *)
(* row, and sleeps between attempts but not after the last one.            *)
(***************************************************************************)
C4_AtMostMaxRetriesAttempts ==
  llm.impl = "LLMAdapter" /\ llm.retryEnabled =>
    /\ Len(callLog) <= llm.MAX_RETRIES
    /\ \A k \in 1..Len(callLog) :
         callLog[k] = "ok" => k = Len(callLog) /\ rpc = "returned"
    /\ rpc = "returned" => callLog # <<>> /\ callLog[Len(callLog)] = "ok"
    /\ rpc = "thrown" =>
         /\ Len(callLog) = llm.MAX_RETRIES
         /\ \A k \in 1..Len(callLog) : callLog[k] # "ok"
    /\ rpc \in {"returned", "thrown"} /\ callLog # <<>> =>
         Len(sleeps) = Len(callLog) - 1
    /\ rpc \in {"call", "sleep"} => Len(sleeps) = Len(callLog)
    /\ rpc = "sleep" => Len(callLog) < llm.MAX_RETRIES

C4_Witness ==
  /\ llm.impl = "LLMAdapter" /\ llm.retryEnabled
  /\ llm.MAX_RETRIES = MAX_RETRIES_DEFAULT
  /\ rpc = "thrown"
  /\ Len(callLog) = 3
  /\ Len(sleeps) = 2

(***************************************************************************)
(* C5: the delay slept after failed attempt k is                           *)
(* min(INITIAL_RETRY_DELAY * RETRY_MULTIPLIER^(k-1), MAX_RETRY_DELAY);     *)
(* with the defaults the delays are 5000, 10000, 20000, then 30000, and no *)
(* delay exceeds MAX_RETRY_DELAY.                                          *)
(***************************************************************************)
C5_CappedExponentialBackoff ==
  \A k \in 1..Len(sleeps) :
    /\ sleeps[k] <= llm.delays.MAX_RETRY_DELAY
    /\ \/ sleeps[k] = llm.delays.INITIAL_RETRY_DELAY
                        * Pow(llm.delays.RETRY_MULTIPLIER, k - 1)
       \/ /\ sleeps[k] = llm.delays.MAX_RETRY_DELAY
          /\ llm.delays.INITIAL_RETRY_DELAY
               * Pow(llm.delays.RETRY_MULTIPLIER, k - 1)
             >= llm.delays.MAX_RETRY_DELAY
    /\ llm.delays = DefaultDelays =>
         sleeps[k] = CASE k = 1 -> 5000
                       [] k = 2 -> 10000
                       [] k = 3 -> 20000
                       [] OTHER -> 30000

C5_Witness ==
  /\ llm.delays = DefaultDelays
  /\ Len(sleeps) >= 4
  /\ sleeps[4] = 30000
  /\ rpc = "call"

(***************************************************************************)
(* C6: in LLMService.analyzeCommit an attempt that fails with an error     *)
(* classified as a daily quota makes the call throw at once, with no       *)
(* further attempt and no sleep; any other failed attempt that is not the  *)
(* last one is followed by the normal backoff sleep and the next attempt.  *)
(***************************************************************************)
C6_DailyQuotaIsFatal ==
  llm.impl = "LLMService" =>
    \A k \in 1..Len(callLog) :
      /\ callLog[k] = "daily quota" =>
           /\ k = Len(callLog)
           /\ rpc = "thrown"
           /\ Len(sleeps) = k - 1
      /\ callLog[k] \notin {"ok", "daily quota"} /\ k < llm.MAX_RETRIES =>
           /\ Len(sleeps) >= k
           /\ sleeps[k] = retryDelay(llm.delays, k)
           /\ k = Len(callLog) => rpc \in {"sleep", "call"}

C6_Witness ==
  /\ llm.impl = "LLMService"
  /\ llm.MAX_RETRIES >= 3
  /\ callLog = <<"per-minute rate limit", "daily quota">>
  /\ rpc = "thrown"

(***************************************************************************)
(* C7: in the adapter pipeline, once an attempt has failed with a daily    *)
(* quota error, no further invocation of the external model is issued,     *)
(* neither for that commit nor for a later commit of the batch.            *)
(***************************************************************************)
C7_NoModelCallAfterDailyQuota ==
  [][(quotaSeen \/ "daily quota" \in Range(callLog))
       => ~(rpc' = "call" /\ rpc # "call")]_vars

(***************************************************************************)
(* C8: with batch size 1, after the first commit whose analysis fails no   *)
(* later commit is analyzed, and on return the export holds exactly the    *)
(* analyses that succeeded before that commit.                             *)
(***************************************************************************)
C8_StopsAtFirstFailedCommit ==
  cmd.batchSize = 1 /\ exhaustedAt > 0 =>
    /\ Len(analyzeLog) <= exhaustedAt
    /\ ucpc = "returned" =>
         /\ \A c \in Range(analyzedCommits) :
              \E k \in 1..(exhaustedAt - 1) : valid[k] = c.hash
         /\ analyzedCommits # <<>> => csvFile = <<analyzedCommits>>

(***************************************************************************)
(* C9: handle continues past failed commits: every valid commit is         *)
(* analyzed exactly once, and on return totalProcessed equals the number   *)
(* of valid commits and equals analyzedCommits.length + failedCommits.     *)
(***************************************************************************)
C9_EveryValidCommitProcessedOnce ==
  ucpc = "returned" =>
    /\ analyzeLog = valid
    /\ totalProcessed = Len(valid)
    /\ totalProcessed = Len(analyzedCommits) + failedCommits


C11_SequentialCheckpointCadence ==
  [][cmd.batchSize = 1 =>
       /\ ( /\ \/ ucpc = "analyzing" /\ ucpc' # "analyzing"
               \/ ucpc = "loop" /\ ucpc' = "saveOnFailure"
            /\ \/ (i + 1) % cmd.saveProgressInterval = 0
               \/ i + 1 = Len(valid)
               \/ failedCommits' = failedCommits + 1 )
            => ucpc' \in {"savePeriodic", "saveOnFailure"}
       /\ ( /\ ucpc \in {"savePeriodic", "saveOnFailure"}
            /\ ucpc' = "loop" )
            => /\ i' = i + 1
               /\ progressFile' =
                    <<checkpointContent(
                        saveProgress(hashes, processedCommits',
                                     analyzedCommits', cmd.outputFile))>>]_vars

C11_Witness ==
  /\ cmd.batchSize = 1
  /\ cmd.saveProgressInterval = 2
  /\ ucpc = "loop"
  /\ i = 3
  /\ Len(valid) = 4
  /\ failedCommits = 1
  /\ Len(analyzedCommits) = 2
  /\ progressFile # <<>>
  /\ Len(progressFile[1][2].processedCommits[2]) = 3
  /\ Len(progressFile[1][2].analyzedCommits[2]) = 2

(***************************************************************************)
(* C12: in batched mode, when the results of a sub-batch are folded in, a  *)
(* checkpoint save follows at once if an item of the sub-batch failed, if  *)
(* the final item was processed, or if the number of processed items       *)
(* passed a further multiple of saveProgressInterval.                      *)
(***************************************************************************)
C12_BatchedCheckpointCadence ==
  [][( /\ ucpc = "batchRun"
       /\ ucpc' # "batchRun"
       /\ \/ failedCommits' > failedCommits
          \/ Len(processedCommits') = Len(valid)
          \/ Len(processedCommits') \div cmd.saveProgressInterval
               > Len(processedCommits) \div cmd.saveProgressInterval )
       => ucpc' = "batchSave"]_vars

(***************************************************************************)
(* C13: in processCommits, while every commit so far was valid and was     *)
(* analyzed successfully, the checkpoint on disk lists all the processed   *)
(* commits whenever their number is a multiple of PROGRESS_SAVE_INTERVAL,  *)
(* and after the last commit.                                              *)
(***************************************************************************)
C13_CheckpointEveryTenCommits ==
  ( /\ cp.pc \in {"loop", "returned"}
    /\ cp.index > 0
    /\ cp.failedCommits = 0
    /\ \/ Len(cp.processedCommits) % PROGRESS_SAVE_INTERVAL = 0
       \/ cp.index = Len(cp.commitsToAnalyze) )
  => /\ cp.checkpointFile # <<>>
     /\ cp.checkpointFile[1].processedCommits = cp.processedCommits

(***************************************************************************)
(* C14: when handle has gone through all items and returned normally, the  *)
(* store holds no checkpoint.                                              *)
(***************************************************************************)
C14_NoCheckpointAfterCompletedRun ==
  ucpc = "returned" => progressFile = <<>>

(***************************************************************************)
(* C17: loadProgress right after a successful saveProgress(s) returns a    *)
(* state equal to s in totalCommits, processedCommits, analyzedCommits     *)
(* (hash, message, date, category, summary, description),                  *)
(* lastProcessedIndex, startTime and outputFile, and with the same         *)
(* remaining commits.                                                      *)
(***************************************************************************)
C17_CheckpointRoundTrip ==
  ( /\ tr.op = "loadProgress" /\ tr.io
    /\ tr.prev = "saveProgress"
    /\ tr.file = <<checkpointContent(tr.state[1])>> )
  => /\ tr.ret[1] = "state"
     /\ LET s == tr.state[1]
            l == tr.ret[2]
            Stored(c) == [hash |-> c.hash, message |-> c.message,
                          date |-> c.date, category |-> c.category,
                          summary |-> c.summary,
                          description |-> c.description]
        IN /\ l.totalCommits = s.totalCommits
           /\ l.processedCommits = s.processedCommits
           /\ Len(l.analyzedCommits) = Len(s.analyzedCommits)
           /\ \A k \in 1..Len(s.analyzedCommits) :
                Stored(l.analyzedCommits[k]) = Stored(s.analyzedCommits[k])
           /\ l.lastProcessedIndex = s.lastProcessedIndex
           /\ l.startTime = s.startTime
           /\ l.outputFile = s.outputFile
           /\ remainingCommits(l) = remainingCommits(s)

C16_ExportHoldsEarlierAndResumed ==
  (rs.pc = "returned" /\ rs.result[1] = "result") =>
    LET all == rs.stored \o HashesOf(analyzedCommits)
    IN all # <<>> => /\ csvFile # <<>>
                     /\ HashesOf(csvFile[1]) = all

\* C18: loadProgress never throws; when the store holds no checkpoint, or
\* the file cannot be read, is no JSON, or holds a record of the wrong shape
\* or an identifier CommitHash.create rejects, it returns null, and
\* ResumeAnalysisUseCase.handle then returns null as it does without a
\* checkpoint: no analysis is started and the store is left as it was.
C18_LoadProgressNullNeverThrows ==
  rs.pc # "start" =>
    /\ rs.loaded[1] \in {"state", "null"}
    /\ ( \/ rs.file = <<>>
         \/ ~rs.readable
         \/ rs.file # <<>> /\ rs.file[1][1] = "garbage"
         \/ rs.file # <<>> /\ rs.file[1][1] = "json"
                           /\ rs.file[1][2] \in MisshapenRecords )
       => /\ rs.loaded = <<"null">>
          /\ rs.pc = "returned"
          /\ rs.result = <<"null">>
          /\ ucpc = "off"
          /\ analyzeLog = <<>>
          /\ progressFile = rs.file
          /\ csvFile = <<>>

C18_Witness ==
  /\ rs.pc = "returned"
  /\ rs.readable
  /\ rs.file # <<>>
  /\ rs.file[1][1] = "json"
  /\ rs.file[1][2] \in MisshapenRecords
  /\ typeof(rs.file[1][2].startTime) = "number"
  /\ rs.loaded = <<"null">>
  /\ rs.result = <<"null">>

\* C19 as stated: every call of clearProgress returns without throwing and
\* leaves the store without a checkpoint (hasProgress() false,
\* loadProgress() null), and from a saveProgress that returned to the next
\* clearProgress the store holds a checkpoint.
C19_ClearProgressNeverThrows ==
  [][/\ tr'.op = "clearProgress" =>
          /\ tr'.ret = <<"void">>
          /\ ~hasProgress(tr'.file)
          /\ \A readable \in BOOLEAN :
               loadProgress(tr.revision, tr'.file, readable) = <<"null">>
     /\ (tr'.op = "saveProgress" /\ tr'.ret = <<"void">>)
          => hasProgress(tr'.file)
     /\ (hasProgress(tr.file) /\ tr'.op # "clearProgress")
          => hasProgress(tr'.file)]_vars

\* C19 (amended): clearProgress returns without throwing when the store
\* holds no checkpoint; a clearProgress that returns leaves the store
\* without a checkpoint (hasProgress() false, loadProgress() null), so a
\* clearProgress right after one that returned returns too; it throws only
\* when the file exists and cannot be deleted, and the checkpoint then
\* stays. From a saveProgress that returned to the next clearProgress the
\* store holds a checkpoint.
C19_ClearProgressIdempotent ==
  [][/\ tr'.op = "clearProgress" =>
          /\ ~hasProgress(tr.file) => tr'.ret = <<"void">>
          /\ tr'.ret = <<"void">> =>
               /\ ~hasProgress(tr'.file)
               /\ \A readable \in BOOLEAN :
                    loadProgress(tr.revision, tr'.file, readable) = <<"null">>
          /\ (tr.op = "clearProgress" /\ tr.ret = <<"void">>)
               => tr'.ret = <<"void">>
          /\ tr'.ret # <<"void">> =>
               /\ hasProgress(tr.file)
               /\ ~tr'.io
               /\ tr'.file = tr.file
     /\ (tr'.op = "saveProgress" /\ tr'.ret = <<"void">>)
          => hasProgress(tr'.file)
     /\ (hasProgress(tr.file) /\ tr'.op # "clearProgress")
          => hasProgress(tr'.file)]_vars

C19_Witness ==
  /\ tr.op = "clearProgress"
  /\ tr.prev = "clearProgress"
  /\ tr.ret = <<"void">>
  /\ tr.file = <<>>
  /\ ~tr.io

\* C20: getRemainingCommits(state) returns the entries of totalCommits whose
\* value is no entry of processedCommits: as many as there are such
\* positions, the j-th returned being the entry at the j-th such position;
\* the state it was given and the store are as before. The same holds of
\* getRemainingCommits of the earlier ProgressTracker.
C20_RemainingCommitsOrderedDifference ==
  [][tr'.op = "getRemainingCommits" =>
       LET total == tr.state[1].totalCommits
           processed == tr.state[1].processedCommits
           P == {k \in 1..Len(total) :
                   \A j \in 1..Len(processed) : processed[j] # total[k]}
           Expected(r) ==
             /\ Len(r) = Cardinality(P)
             /\ \A k \in P : r[Cardinality({q \in P : q <= k})] = total[k]
       IN /\ tr'.ret[1] = "commits"
          /\ Expected(tr'.ret[2])
          /\ Expected(getRemainingCommits(tr.state[1]))
          /\ tr'.state = tr.state
          /\ tr'.file = tr.file]_vars

C20_Witness ==
  /\ tr.op = "getRemainingCommits"
  /\ tr.state[1].totalCommits = FirstCommits(4)
  /\ tr.state[1].processedCommits = <<CommitId(2), CommitId(4)>>
  /\ tr.ret = <<"commits", <<CommitId(1), CommitId(3)>>>>

\* C21: when the list given to handle is empty or names no commit of the
\* repository, handle throws at its start: no commit is sent to the
\* analysis, no checkpoint is written and nothing is exported.
C21_NoValidWorkFailsBeforeProcessing ==
  ( /\ ucpc \notin {"off", "start"}
    /\ \A k \in 1..Len(cmd.commitHashes) :
         cmd.commitHashes[k] \notin Repository )
  => /\ ucpc = "thrown"
     /\ analyzeLog = <<>>
     /\ callLog = <<>>
     /\ processedCommits = <<>>
     /\ failedCommits = 0
     /\ progressFile = <<>>
     /\ csvFile = <<>>

C21_Witness ==
  /\ ucpc = "thrown"
  /\ cmd.commitHashes = <<UnknownId>>
  /\ hashes = <<UnknownId>>
  /\ valid = <<>>
  /\ progressFile = <<>>
  /\ csvFile = <<>>

\* C22: when the list given to handle holds malformed identifiers and
\* commits of the repository, handle does not stop at its start: the
\* malformed identifiers are left out and the commits of the repository are
\* the ones it processes, in their order.
C22_MalformedExcludedValidProcessed ==
  ( /\ ucpc \notin {"off", "start"}
    /\ \E k \in 1..Len(cmd.commitHashes) :
         CommitHashCreate(cmd.commitHashes[k])[1] = "error"
    /\ \E k \in 1..Len(cmd.commitHashes) :
         cmd.commitHashes[k] \in Repository )
  => /\ valid = Pick(cmd.commitHashes,
                     {k \in 1..Len(cmd.commitHashes) :
                        cmd.commitHashes[k] \in Repository})
     /\ ~(ucpc = "thrown" /\ analyzeLog = <<>>)

\* C23: a step that ends a checkpoint save either has written the
\* checkpoint or leaves handle with its rejection, the count of failed
\* commits and the list of processed commits being as they were before.
C23_SaveFailurePropagates ==
  [][(ucpc \in {"savePeriodic", "saveOnFailure", "batchSave"}) =>
       ( \/ progressFile' =
              <<checkpointContent(saveProgress(hashes, processedCommits,
                                               analyzedCommits,
                                               cmd.outputFile))>>
         \/ ( /\ ucpc' = "thrown"
              /\ failedCommits' = failedCommits
              /\ processedCommits' = processedCommits ) )]_vars

\* the number of truncation notices in a string
NoticeCount(s) == Len(SelectSeq(s, LAMBDA p : p.src = "notice"))

\* C24: for a prompt longer than getMaxPromptLength(), truncatePrompt
\* returns a prompt of at most getMaxPromptLength() characters that holds
\* the truncation notice once.
C24_TruncatedPromptWithinLimit ==
  ( /\ call.fn = "truncatePrompt"
    /\ call.ret[1] = "string"
    /\ StrLen(buildPrompt(call.commitMessage, call.diff)) > call.maxLength )
  => /\ StrLen(call.ret[2]) <= call.maxLength
     /\ NoticeCount(call.ret[2]) = 1

\* C25: when truncatePrompt returns a prompt other than the one it was
\* given, the result starts with the text that preceded the diff (the
\* header, the commit message and the line 'COMMIT DIFF:') and ends with
\* the instruction text that followed the diff, both as they were.
C25_OnlyDiffPayloadCut ==
  ( /\ call.fn = "truncatePrompt"
    /\ call.ret[1] = "string"
    /\ call.ret[2] # buildPrompt(call.commitMessage, call.diff) )
  => LET head == Intro \o call.commitMessage \o Separator \o DiffHeader
         result == call.ret[2]
     IN /\ Take(result, StrLen(head)) = head
        /\ Drop(result, StrLen(result) - InstructionsLength) = Instructions

\* C26: CommitHash.create(s) returns a hash exactly when s is a string of 4
\* to 40 characters, each a decimal digit or one of the letters a to f in
\* either case, and throws otherwise; getValue() of the hash is s, and two
\* hashes are equal exactly when they were created from the same string.
C26_CommitHashCreateExact ==
  (call.fn = "CommitHash.create" /\ call.ret[1] = "done") =>
    LET Digit == {"0", "1", "2", "3", "4", "5", "6", "7", "8", "9"}
        Lower == {"a", "b", "c", "d", "e", "f"}
        Upper == {"A", "B", "C", "D", "E", "F"}
        WellFormed(v) ==
          /\ v[1] = "string"
          /\ Len(v[2]) >= 4
          /\ Len(v[2]) <= 40
          /\ \A k \in 1..Len(v[2]) : v[2][k] \in Digit \cup Lower \cup Upper
        a == call.ret[2]
        b == call.ret[3]
    IN /\ a[1] = "ok" <=> WellFormed(call.hash)
       /\ a[1] \in {"ok", "error"}
       /\ a[1] = "ok" => getValue(a[2]) = call.hash[2]
       /\ (a[1] = "ok" /\ b[1] = "ok") =>
            /\ call.ret[4][1] = "boolean"
            /\ call.ret[4][2] <=> call.hash[2] = call.other[2]

C26_Witness ==
  /\ call.fn = "CommitHash.create"
  /\ call.ret[1] = "done"
  /\ call.hash = <<"string", <<"A", "a", "9", "a">>>>
  /\ call.other = <<"string", <<"a", "a", "a", "a">>>>
  /\ call.ret[2] = <<"ok", <<"A", "a", "9", "a">>>>
  /\ call.ret[4] = <<"boolean", FALSE>>

HoldsUnexpiredEntry(files, now, commitHash) ==
  /\ files[commitHash][1] = "file"
  /\ now - files[commitHash][2] <= DEFAULT_TTL_DAYS
  /\ \E a \in BaseAnalyses :
       files[commitHash][3] = <<"entry", cacheEntry(commitHash, a)>>

\* the latest analyze found the cache enabled and an unexpired entry and
\* then made no call of the base repository and returned the entry
CacheHitMakesNoBaseCall ==
  ( /\ cache.last[1] = "analyze"
    /\ cache.last[2].cacheEnabled
    /\ HoldsUnexpiredEntry(cache.last[2].files, cache.last[2].now,
                           cache.last[2].commitHash) )
  => /\ cache.last[2].baseCalls = 0
     /\ cache.last[2].ret[1] = "ok"
     /\ cache.last[2].files[cache.last[2].commitHash][3]
          = <<"entry", cacheEntry(cache.last[2].commitHash,
                                  cache.last[2].ret[2])>>

\* the latest analyze failed and left no file it had not found, and none
\* with another content or time
FailedAnalysisStoresNothing ==
  (cache.last[1] = "analyze" /\ cache.last[2].ret[1] = "error")
  => \A h \in CacheHashes :
       cache.files[h] \in {cache.last[2].files[h], <<"none">>}

\* the latest analyze found the cache enabled and no unexpired entry, and
\* the base repository returned an analysis
CacheMiss ==
  /\ cache.last[1] = "analyze"
  /\ cache.last[2].cacheEnabled
  /\ ~HoldsUnexpiredEntry(cache.last[2].files, cache.last[2].now,
                          cache.last[2].commitHash)

ResultStored ==
  cache.files[cache.last[2].commitHash]
    = <<"file", cache.last[2].now,
        <<"entry", cacheEntry(cache.last[2].commitHash,
                              cache.last[2].ret[2])>>>>

WellFormedRow(line) ==
  CASE line = GoodLine ->
         [year |-> 2024, category |-> "feature", summary |-> SampleSummary,
          description |-> SampleDescription]
    [] line = QuotedLine ->
         [year |-> 2023, category |-> "tweak",
          summary |-> <<"a", ",", "b">>,
          description |->
            <<"s", "a", "y", " ", "\"", "h", "i", "\"", " ", "n", "o", "w">>]
    [] line = ShortDescriptionLine ->
         [year |-> 2024, category |-> "process", summary |-> SampleSummary,
          description |-> <<"s", "h", "o", "r", "t">>]

\* the rows of the well-formed lines of a file, in the order of the file
RECURSIVE WellFormedRows(_)
WellFormedRows(lines) ==
  IF lines = <<>>
    THEN <<>>
    ELSE IF Head(lines) \in MalformedLines \cup {BlankLine}
      THEN WellFormedRows(Tail(lines))
      ELSE <<WellFormedRow(Head(lines))>> \o WellFormedRows(Tail(lines))

\* C29: on a file with the expected header and a malformed data row (wrong
\* field count, invalid year or category, empty summary or description),
\* CSVService.importFromCSV and CSVReaderService.readCSV both return, and
\* return the rows of all well-formed lines of the file.
C29_ImportSkipsMalformedRows ==
  ( /\ call.fn = "parseCSV"
    /\ headerToLowerCase(call.header) = "year,category,summary,description"
    /\ \E k \in 1..Len(call.rows) : call.rows[k] \in MalformedLines )
  => /\ call.imported[1] = "done"
          => call.imported[2] = <<"ok", WellFormedRows(call.rows)>>
     /\ call.read[1] = "done"
          => call.read[2] = <<"ok", WellFormedRows(call.rows)>>

\* C30: in sequential mode the commits are handed to the analysis one at a
\* time and in the order of the valid list, and a checkpoint written after
\* the k-th commit lists as processed the first k valid commits in their
\* order, and as analyzed those of them that did not fail.
C30_SequentialOrderAndCheckpoints ==
  /\ [](cmd.batchSize = 1 =>
          /\ Len(analyzeLog) <= Len(valid)
          /\ analyzeLog = SubSeq(valid, 1, Len(analyzeLog))
          /\ ucpc = "analyzing" =>
               /\ Len(analyzeLog) = i + 1
               /\ Len(processedCommits) = i)
  /\ [][( /\ cmd.batchSize = 1
          /\ ucpc \in {"savePeriodic", "saveOnFailure"}
          /\ ucpc' = "loop" )
        => LET checkpoint == progressFile'[1][2]
               processed == checkpoint.processedCommits[2]
               analyzed == checkpoint.analyzedCommits[2]
               k == i'
           IN /\ processed = SubSeq(valid, 1, k)
              /\ Len(analyzed) = k - failedCommits'
              /\ [j \in 1..Len(analyzed) |-> analyzed[j].hash]
                   = SelectSeq(SubSeq(valid, 1, k),
                               LAMBDA h :
                                 \E j \in 1..Len(analyzedCommits') :
                                   analyzedCommits'[j].hash = h)]_vars

\* C31: in batched mode a sub-batch is dispatched only when every task of
\* the sub-batch before it has settled, the analyses started so far are
\* those of the sub-batches up to the current one, a checkpoint is written
\* only with no analysis in flight, and it lists as processed the commits
\* of the sub-batches dispatched so far, in order, and no later one.
C31_SubBatchesInOrder ==
  /\ [](cmd.batchSize > 1 =>
          /\ Range(analyzeLog) \subseteq
               Range(SubSeq(valid, 1, Min(i + cmd.batchSize, Len(valid))))
          /\ ucpc = "batchRun" => processedCommits = SubSeq(valid, 1, i))
  /\ [][cmd.batchSize > 1 =>
          /\ (ucpc = "batch" /\ ucpc' = "batchRun")
               => /\ \A t \in Range(submitted) : settled[t] # <<"pending">>
                  /\ InFlight = {}
          /\ progressFile' # progressFile
               => /\ ucpc = "batchSave"
                  /\ InFlight = {}
                  /\ progressFile'[1][2].processedCommits[2]
                       = SubSeq(valid, 1,
                                Min(i + cmd.batchSize, Len(valid)))]_vars

\* the second sub-batch of two commits was dispatched after the first had
\* settled, one of its commits failed, and the checkpoint after it lists
\* the four commits
C31_Witness ==
  /\ cmd.batchSize = 2
  /\ Len(valid) = 4
  /\ ucpc = "batch"
  /\ i = 4
  /\ failedCommits = 1
  /\ progressFile # <<>>
  /\ progressFile[1][2].processedCommits[2] = valid

\* C32: in batched mode at most DEFAULT_MAX_CONCURRENCY analyses of commits
\* are in flight in any state, whatever the batch size.
C32_AtMostThreeAnalysesInFlight ==
  cmd.batchSize > 1 =>
    /\ Cardinality(InFlight) <= DEFAULT_MAX_CONCURRENCY
    /\ cm.running = Cardinality(InFlight)

\* a sub-batch larger than the limit: three analyses in flight, the fourth
\* commit waits in the queue
C32_Witness ==
  /\ cmd.batchSize > DEFAULT_MAX_CONCURRENCY
  /\ ucpc = "batchRun"
  /\ Cardinality(InFlight) = DEFAULT_MAX_CONCURRENCY
  /\ Len(cm.queue) = 1
  /\ Len(analyzeLog) = DEFAULT_MAX_CONCURRENCY

\* C33: when analyze has ended, every response the model gave before the
\* last one was unusable and cost one attempt; analyze fails only after
\* MAX_RETRIES attempts, and it succeeds when one of the MAX_RETRIES
\* responses is well-formed.
C33_UnusableResponseIsRetried ==
  (call.fn = "analyze" /\ call.ret # <<"none">>) =>
    /\ \A k \in 1..(Len(callLog) - 1) : call.responses[k] \in UnusableResponses
    /\ call.ret[1] = "error" => Len(callLog) = MAX_RETRIES_DEFAULT
    /\ (\E k \in 1..MAX_RETRIES_DEFAULT :
          call.responses[k] = WellFormedResponse)
         => call.ret[1] = "ok"

\* C34: with retry disabled, analyzeCommit of LLMAdapter invokes the model
\* once: it never sleeps, and when it has ended the model was invoked
\* exactly once, the call returned if that attempt succeeded and threw if
\* it failed.
C34_RetryDisabledSingleAttempt ==
  (llm.impl = "LLMAdapter" /\ ~llm.retryEnabled) =>
    /\ Len(callLog) <= 1
    /\ sleeps = <<>>
    /\ rpc # "sleep"
    /\ rpc \in {"returned", "thrown"} =>
         /\ Len(callLog) = 1
         /\ rpc = "returned" <=> callLog[1] = "ok"
         /\ rpc = "thrown" <=> lastError # <<"null">>

\* retry is disabled, MAX_RETRIES is 3, and the call threw after its one
\* attempt ended with a timeout
C34_Witness ==
  /\ llm.impl = "LLMAdapter"
  /\ ~llm.retryEnabled
  /\ llm.MAX_RETRIES = MAX_RETRIES_DEFAULT
  /\ rpc = "thrown"
  /\ lastError = <<"error", ErrTimeout>>
  /\ Len(callLog) = 1

\* a field of a stored record has the wrong shape
WrongShape(data) ==
  \/ typeof(data.totalCommits) # "array"
  \/ typeof(data.processedCommits) # "array"
  \/ typeof(data.analyzedCommits) # "array"
  \/ typeof(data.lastProcessedIndex) # "number"
  \/ typeof(data.startTime) # "string"
  \/ parseDate(data.startTime[2]) = InvalidDate
  \/ typeof(data.outputFile) # "string"

\* C35: loadProgress of a stored record with a field of the wrong shape
\* (totalCommits, processedCommits or analyzedCommits no array,
\* lastProcessedIndex no number, startTime no parseable date, outputFile no
\* string) returns null.
C35_MisshapenRecordLoadsAsNull ==
  ( /\ tr.op = "loadProgress"
    /\ tr.file # <<>>
    /\ JSONparse(tr.file[1])[1] = "ok"
    /\ WrongShape(JSONparse(tr.file[1])[2]) )
  => tr.ret = <<"null">>

\* C36: every checkpoint that handle writes, in sequential or in batched
\* mode, lists as processed only commits of its totalCommits, as analyzed
\* only commits it lists as processed, and has lastProcessedIndex equal to
\* the number of processed commits less one.
C36_CheckpointInvariants ==
  [][(progressFile' # progressFile /\ progressFile' # <<>>) =>
       LET checkpoint == progressFile'[1][2]
           total == checkpoint.totalCommits[2]
           processed == checkpoint.processedCommits[2]
           analyzed == checkpoint.analyzedCommits[2]
       IN /\ Range(processed) \subseteq Range(total)
          /\ {analyzed[k].hash : k \in 1..Len(analyzed)}
               \subseteq Range(processed)
          /\ checkpoint.lastProcessedIndex[2] = Len(processed) - 1]_vars

\* a batched run over a list with an unknown commit wrote a checkpoint with
\* fewer processed than total commits and an analyzed and a failed commit
C36_Witness ==
  /\ cmd.batchSize = 2
  /\ progressFile # <<>>
  /\ Len(progressFile[1][2].totalCommits[2]) = 3
  /\ Len(progressFile[1][2].processedCommits[2]) = 2
  /\ Len(progressFile[1][2].analyzedCommits[2]) = 1
  /\ progressFile[1][2].lastProcessedIndex[2] = 1

\* C37: in every state of a ConcurrencyManager a non-empty queue comes with
\* running = maxConcurrency, and an execute call starts its task at once
\* only when no task is queued.
C37_WorkConserving ==
  /\ [](Len(cm.queue) > 0 => cm.running = cm.maxConcurrency)
  /\ [][( /\ Len(submitted') = Len(submitted) + 1
          /\ Len(started') = Len(started) + 1 )
        => /\ cm.queue = <<>>
           /\ started'[Len(started')] = Len(submitted')]_vars

\* with two slots: a task waited in the queue while two ran, one of them
\* finished, the queued task took its slot, and a later task ran at once
C37_Witness ==
  /\ cm.maxConcurrency = 2
  /\ enqueued = <<3>>
  /\ started = <<1, 2, 3, 4>>
  /\ cm.queue = <<>>
  /\ cm.running = 2

\* C38: every checkpoint written during one run of handle carries the
\* startTime of the checkpoint written before it in that run
C38_CheckpointsShareStartTime ==
  [][( /\ progressFile # <<>>
       /\ progressFile' # <<>>
       /\ ucpc \in {"savePeriodic", "saveOnFailure", "batchSave"} )
     => progressFile'[1][2].startTime = progressFile[1][2].startTime]_vars

\* C39: for every integer batchSize of the command line, 0 and the negative
\* ones included, handle comes to an end when its analyses and saves end,
\* and when it returns every valid commit has been processed
\* (a run whose index i has come down to the bound MaxRewind is not followed
\* further and is not counted as a run that fails to end)
C39_HandleTerminatesForEveryBatchSize ==
  /\ <>(ucpc \in {"returned", "thrown"} \/ i <= 0 - MaxRewind)
  /\ [](ucpc = "returned" => Range(valid) \subseteq Range(processedCommits))

\* C40: in batched mode processedCommits holds the valid commits in the
\* order of the input and analyzedCommits holds the analysed ones among
\* them in that order, whatever the order in which the analyses of a
\* sub-batch end; the fold of a sub-batch appends its commits as cut
C40_BatchedResultsInInputOrder ==
  /\ [](cmd.batchSize > 1 =>
          /\ Len(processedCommits) <= Len(valid)
          /\ processedCommits = SubSeq(valid, 1, Len(processedCommits))
          /\ HashesOf(analyzedCommits) =
               SelectSeq(valid,
                         LAMBDA h : h \in Range(HashesOf(analyzedCommits))))
  /\ [][( /\ cmd.batchSize > 1
          /\ ucpc = "batchRun"
          /\ ucpc' # "batchRun" )
        => processedCommits' = processedCommits \o batch]_vars

\* the second commit of the second sub-batch has ended before the first,
\* the first having failed in the sub-batch before
C40_Witness ==
  /\ cmd.batchSize = 2
  /\ ucpc = "batchRun"
  /\ i = 2
  /\ processedCommits = SubSeq(valid, 1, 2)
  /\ HashesOf(analyzedCommits) = <<valid[2]>>
  /\ settled[1] = <<"pending">>
  /\ settled[2] # <<"pending">>

====
